---- MODULE Spec2Model ----
(***************************************************************************)
(* The configuration tree of configai and its mutation / merge engine      *)
(* (snapshot mode): src/src/core/{project,env,config,shared,api_key}.rs    *)
(* over src/src/storage/file.rs, plus the TUI handler that creates         *)
(* shared-group environments on demand (src/src/tui/app.rs).               *)
(***************************************************************************)
EXTENDS Integers, Sequences, FiniteSets, TLC

VARIABLES
    state,    \* Storage.state : ConfigState, the in-memory tree
    before,   \* the tree when the last operation was called
    last,     \* the last operation: name, arguments, returned Result, save calls
    disk,     \* directory mode: the configuration directory
    center,   \* directory mode: the ConfigCenter behind AppState's RwLock
    events,   \* file-system events notify has not yet handed to the callback
    watcher,  \* the watcher thread: idle, or blocked in blocking_send
    chan,     \* the mpsc channel between the callback and the reload task
    reloader, \* the reload task: its position and locals
    rwlock,   \* AppState's RwLock: readers holding it, a writer waiting
    request,  \* a get_all_configs request: its position and what it read
    hist,     \* counts of edits, notifications, reload cycles and key presses so far
    app       \* the terminal UI: the fields of tui::App beside its ConfigCenter

\* the variables of a directory-mode deployment
dirVars == <<disk, center, events, watcher, chan, reloader, rwlock, request, hist>>

vars == <<state, before, last, dirVars, app>>

(***************************************************************************)
(* Input universes and bounds                                              *)
(***************************************************************************)
ProjectNames == {"app", "web"}
EnvNames     == {"default", "prod"}
Keys         == {"db_host", "log_level"}
Values       == {"localhost", "debug"}
\* Option<&str> description: None is <<>>, Some(d) is <<d>>
Descriptions == {<<"svc">>}
\* values Uuid::new_v4() can return
Uuids        == {"uuid-1", "uuid-2"}
\* outcomes of Storage::save: Ok, or the IoError of create_dir_all / write (the
\* serializer's StorageError cannot arise: every map key of ConfigState is a
\* string and serde_json::Value holds no non-finite number)
SaveOutcomes == {"Ok", "IoError"}

\* bound on the number of entities (projects, environments, items, keys) in the tree
MaxNodes == 3

NoArg == "-"

(***************************************************************************)
(* models.rs                                                               *)
(***************************************************************************)
ConfigItem(key, value) == [key |-> key, value |-> value]

Environment(name, config_items) == [name |-> name, config_items |-> config_items]

Project(name, description, environments) ==
    [name |-> name, description |-> description, environments |-> environments]

ApiKey(key, project) == [key |-> key, project |-> project]

ConfigState(projects, shared_envs, api_keys) ==
    [projects |-> projects,
     shared_group |-> [environments |-> shared_envs],
     api_keys |-> api_keys]

\* Storage::empty_state
empty_state == ConfigState(<<>>, <<>>, <<>>)

(***************************************************************************)
(* Vec helpers (1-based; Rust's index i is position i + 1)                 *)
(***************************************************************************)
\* Iterator::position / find: the first index of a set of matching indices, 0 if none
First(S) == IF S = {} THEN 0 ELSE CHOOSE i \in S : \A j \in S : i <= j

\* Vec::remove(i)
RemoveAt(seq, i) == SubSeq(seq, 1, i - 1) \o SubSeq(seq, i + 1, Len(seq))

\* Vec::insert(i, x)
InsertAt(seq, i, x) == SubSeq(seq, 1, i - 1) \o <<x>> \o SubSeq(seq, i, Len(seq))

\* Vec::pop
Pop(seq) == IF seq = <<>> THEN seq ELSE SubSeq(seq, 1, Len(seq) - 1)

\* Vec::push
Push(seq, x) == Append(seq, x)

ProjectPos(st, name) ==
    First({i \in DOMAIN st.projects : st.projects[i].name = name})

EnvPos(envs, name) == First({i \in DOMAIN envs : envs[i].name = name})

ItemPos(items, key) == First({i \in DOMAIN items : items[i].key = key})

KeyPos(st, key) == First({i \in DOMAIN st.api_keys : st.api_keys[i].key = key})

(***************************************************************************)
(* Results                                                                 *)
(***************************************************************************)
Ok(v) == [kind |-> "Ok", value |-> v]

Err(kind, arg) == [kind |-> kind, value |-> arg]

\* what an operation leaves: the tree, its Result, and the outcomes of the calls
\* of Storage::save it made, in order
Outcome(st, result, saves) == [state |-> st, result |-> result, saves |-> saves]

\* the error Storage::save returns, handed on by `return Err(e)`
SaveErr(outcome) == Err(outcome, "save")

(***************************************************************************)
(* core/project.rs                                                         *)
(***************************************************************************)
\* create_project without the uniqueness check
create_project_nocheck(st, name, description, saveOutcome) ==
    LET project == Project(name, description, <<Environment("default", <<>>)>>)
        pushed  == [st EXCEPT !.projects = Push(@, project)]
    IN IF saveOutcome # "Ok"
       THEN Outcome([pushed EXCEPT !.projects = Pop(@)], SaveErr(saveOutcome),
                    <<saveOutcome>>)
       ELSE Outcome(pushed, Ok(project), <<saveOutcome>>)

\* create_project that gives the project no environment
create_project_noenv(st, name, description, saveOutcome) ==
    IF \E i \in DOMAIN st.projects : st.projects[i].name = name
    THEN Outcome(st, Err("ProjectAlreadyExists", name), <<>>)
    ELSE LET project == Project(name, description, <<>>)
             pushed  == [st EXCEPT !.projects = Push(@, project)]
         IN IF saveOutcome # "Ok"
            THEN Outcome([pushed EXCEPT !.projects = Pop(@)], SaveErr(saveOutcome),
                         <<saveOutcome>>)
            ELSE Outcome(pushed, Ok(project), <<saveOutcome>>)

create_project(st, name, description, saveOutcome) ==
    IF \E i \in DOMAIN st.projects : st.projects[i].name = name
    THEN Outcome(st, Err("ProjectAlreadyExists", name), <<>>)
    ELSE LET project == Project(name, description, <<Environment("default", <<>>)>>)
             pushed  == [st EXCEPT !.projects = Push(@, project)]
         IN IF saveOutcome # "Ok"
            THEN Outcome([pushed EXCEPT !.projects = Pop(@)], SaveErr(saveOutcome), <<saveOutcome>>)
            ELSE Outcome(pushed, Ok(project), <<saveOutcome>>)

\* removed_keys: (index, key) of every API key bound to `name`, in ascending index
RemovedKeyIdx(api_keys, name) == {i \in DOMAIN api_keys : api_keys[i].project = name}

RECURSIVE RemoveKeysFwd(_, _)
\* the removal loop without .rev(): earlier removals shift the later indices
RemoveKeysFwd(api_keys, idx) ==
    IF idx = {} THEN api_keys
    ELSE LET i == CHOOSE m \in idx : \A j \in idx : m <= j
         IN RemoveKeysFwd(RemoveAt(api_keys, i), idx \ {i})

RECURSIVE RemoveKeysRev(_, _)
\* for (i, _) in removed_keys.iter().rev() { api_keys.remove(i) }
RemoveKeysRev(api_keys, idx) ==
    IF idx = {} THEN api_keys
    ELSE LET i == CHOOSE m \in idx : \A j \in idx : j <= m
         IN RemoveKeysRev(RemoveAt(api_keys, i), idx \ {i})

RECURSIVE ReinsertKeysAtEnd(_, _, _)
\* a rollback that pushes the removed keys back at the end of the list
ReinsertKeysAtEnd(api_keys, idx, orig) ==
    IF idx = {} THEN api_keys
    ELSE LET i == CHOOSE m \in idx : \A j \in idx : m <= j
         IN ReinsertKeysAtEnd(Push(api_keys, orig[i]), idx \ {i}, orig)

RECURSIVE ReinsertKeys(_, _, _)
\* for (i, key) in removed_keys { api_keys.insert(i, key) }
ReinsertKeys(api_keys, idx, orig) ==
    IF idx = {} THEN api_keys
    ELSE LET i == CHOOSE m \in idx : \A j \in idx : m <= j
         IN ReinsertKeys(InsertAt(api_keys, i, orig[i]), idx \ {i}, orig)

\* delete_project that leaves the API keys alone
delete_project_keep_keys(st, name, saveOutcome) ==
    LET pos == ProjectPos(st, name)
    IN IF pos = 0
       THEN Outcome(st, Err("ProjectNotFound", name), <<>>)
       ELSE LET removed_project == st.projects[pos]
                removed == [st EXCEPT !.projects = RemoveAt(@, pos)]
            IN IF saveOutcome # "Ok"
               THEN Outcome([removed EXCEPT
                                !.projects = InsertAt(@, pos, removed_project)],
                            SaveErr(saveOutcome), <<saveOutcome>>)
               ELSE Outcome(removed, Ok(NoArg), <<saveOutcome>>)

delete_project(st, name, saveOutcome) ==
    LET pos == ProjectPos(st, name)
    IN IF pos = 0
       THEN Outcome(st, Err("ProjectNotFound", name), <<>>)
       ELSE LET removed_project == st.projects[pos]
                removed_keys    == RemovedKeyIdx(st.api_keys, name)
                removed == [st EXCEPT !.projects = RemoveAt(@, pos),
                                      !.api_keys = RemoveKeysRev(@, removed_keys)]
            IN IF saveOutcome # "Ok"
               THEN Outcome([removed EXCEPT
                                !.projects = InsertAt(@, pos, removed_project),
                                !.api_keys = ReinsertKeys(@, removed_keys, st.api_keys)],
                            SaveErr(saveOutcome), <<saveOutcome>>)
               ELSE Outcome(removed, Ok(NoArg), <<saveOutcome>>)

(***************************************************************************)
(* core/env.rs                                                             *)
(***************************************************************************)
\* create_environment without the uniqueness check
create_environment_nocheck(st, project, env_name, saveOutcome) ==
    LET ppos == ProjectPos(st, project)
    IN IF ppos = 0
       THEN Outcome(st, Err("ProjectNotFound", project), <<>>)
       ELSE LET env    == Environment(env_name, <<>>)
                pushed == [st EXCEPT !.projects[ppos].environments = Push(@, env)]
                rpos   == ProjectPos(pushed, project)
            IN IF saveOutcome # "Ok"
               THEN Outcome([pushed EXCEPT !.projects[rpos].environments = Pop(@)],
                            SaveErr(saveOutcome), <<saveOutcome>>)
               ELSE Outcome(pushed, Ok(env), <<saveOutcome>>)

create_environment(st, project, env_name, saveOutcome) ==
    LET ppos == ProjectPos(st, project)
    IN IF ppos = 0
       THEN Outcome(st, Err("ProjectNotFound", project), <<>>)
       ELSE IF \E i \in DOMAIN st.projects[ppos].environments :
                   st.projects[ppos].environments[i].name = env_name
       THEN Outcome(st, Err("EnvironmentAlreadyExists", env_name), <<>>)
       ELSE LET env    == Environment(env_name, <<>>)
                pushed == [st EXCEPT !.projects[ppos].environments = Push(@, env)]
                rpos   == ProjectPos(pushed, project)
            IN IF saveOutcome # "Ok"
               THEN Outcome([pushed EXCEPT !.projects[rpos].environments = Pop(@)],
                            SaveErr(saveOutcome), <<saveOutcome>>)
               ELSE Outcome(pushed, Ok(env), <<saveOutcome>>)

\* delete_environment whose rollback pushes the environment back at the end
delete_environment_push_back(st, project, env_name, saveOutcome) ==
    LET ppos == ProjectPos(st, project)
    IN IF ppos = 0
       THEN Outcome(st, Err("ProjectNotFound", project), <<>>)
       ELSE LET env_pos == EnvPos(st.projects[ppos].environments, env_name)
            IN IF env_pos = 0
               THEN Outcome(st, Err("EnvironmentNotFound", env_name), <<>>)
               ELSE LET removed_env == st.projects[ppos].environments[env_pos]
                        removed == [st EXCEPT !.projects[ppos].environments =
                                                  RemoveAt(@, env_pos)]
                        rpos    == ProjectPos(removed, project)
                    IN IF saveOutcome # "Ok"
                       THEN Outcome([removed EXCEPT !.projects[rpos].environments =
                                                 Push(@, removed_env)],
                                    SaveErr(saveOutcome), <<saveOutcome>>)
                       ELSE Outcome(removed, Ok(NoArg), <<saveOutcome>>)

\* delete_environment that also drops the shared group's environment of that name
delete_environment_shared_too(st, project, env_name, saveOutcome) ==
    LET ppos == ProjectPos(st, project)
    IN IF ppos = 0
       THEN Outcome(st, Err("ProjectNotFound", project), <<>>)
       ELSE LET env_pos == EnvPos(st.projects[ppos].environments, env_name)
            IN IF env_pos = 0
               THEN Outcome(st, Err("EnvironmentNotFound", env_name), <<>>)
               ELSE LET removed ==
                           [st EXCEPT
                              !.projects[ppos].environments = RemoveAt(@, env_pos),
                              !.shared_group.environments =
                                  SelectSeq(@, LAMBDA e : e.name # env_name)]
                    IN IF saveOutcome # "Ok"
                       THEN Outcome(st, SaveErr(saveOutcome), <<saveOutcome>>)
                       ELSE Outcome(removed, Ok(NoArg), <<saveOutcome>>)

delete_environment(st, project, env_name, saveOutcome) ==
    LET ppos == ProjectPos(st, project)
    IN IF ppos = 0
       THEN Outcome(st, Err("ProjectNotFound", project), <<>>)
       ELSE LET env_pos == EnvPos(st.projects[ppos].environments, env_name)
            IN IF env_pos = 0
               THEN Outcome(st, Err("EnvironmentNotFound", env_name), <<>>)
               ELSE LET removed_env == st.projects[ppos].environments[env_pos]
                        removed == [st EXCEPT !.projects[ppos].environments =
                                                  RemoveAt(@, env_pos)]
                        rpos    == ProjectPos(removed, project)
                    IN IF saveOutcome # "Ok"
                       THEN Outcome([removed EXCEPT !.projects[rpos].environments =
                                                 InsertAt(@, env_pos, removed_env)],
                                    SaveErr(saveOutcome), <<saveOutcome>>)
                       ELSE Outcome(removed, Ok(NoArg), <<saveOutcome>>)

(***************************************************************************)
(* core/config.rs                                                          *)
(***************************************************************************)
create_config_item(st, project, env, key, value, saveOutcome) ==
    LET ppos == ProjectPos(st, project)
    IN IF ppos = 0
       THEN Outcome(st, Err("ProjectNotFound", project), <<>>)
       ELSE LET epos == EnvPos(st.projects[ppos].environments, env)
            IN IF epos = 0
               THEN Outcome(st, Err("EnvironmentNotFound", env), <<>>)
               ELSE IF \E i \in DOMAIN st.projects[ppos].environments[epos].config_items :
                         st.projects[ppos].environments[epos].config_items[i].key = key
               THEN Outcome(st, Err("ConfigItemAlreadyExists", key), <<>>)
               ELSE LET config_item == ConfigItem(key, value)
                        pushed == [st EXCEPT
                            !.projects[ppos].environments[epos].config_items =
                                Push(@, config_item)]
                        rp == ProjectPos(pushed, project)
                        re == EnvPos(pushed.projects[rp].environments, env)
                    IN IF saveOutcome # "Ok"
                       THEN Outcome([pushed EXCEPT
                                !.projects[rp].environments[re].config_items = Pop(@)],
                                SaveErr(saveOutcome), <<saveOutcome>>)
                       ELSE Outcome(pushed, Ok(config_item), <<saveOutcome>>)

update_config_item(st, project, env, key, value, saveOutcome) ==
    LET ppos == ProjectPos(st, project)
    IN IF ppos = 0
       THEN Outcome(st, Err("ProjectNotFound", project), <<>>)
       ELSE LET epos == EnvPos(st.projects[ppos].environments, env)
            IN IF epos = 0
               THEN Outcome(st, Err("EnvironmentNotFound", env), <<>>)
               ELSE LET ipos == ItemPos(st.projects[ppos].environments[epos].config_items, key)
                    IN IF ipos = 0
                       THEN Outcome(st, Err("ConfigItemNotFound", key), <<>>)
                       ELSE LET old_value ==
                                    st.projects[ppos].environments[epos].config_items[ipos].value
                                set == [st EXCEPT
                                    !.projects[ppos].environments[epos].config_items[ipos].value
                                        = value]
                                rp == ProjectPos(set, project)
                                re == EnvPos(set.projects[rp].environments, env)
                                ri == ItemPos(set.projects[rp].environments[re].config_items, key)
                            IN IF saveOutcome # "Ok"
                               THEN Outcome([set EXCEPT
                                    !.projects[rp].environments[re].config_items[ri].value
                                        = old_value],
                                    SaveErr(saveOutcome), <<saveOutcome>>)
                               ELSE Outcome(set, Ok(ConfigItem(key, value)), <<saveOutcome>>)

delete_config_item(st, project, env, key, saveOutcome) ==
    LET ppos == ProjectPos(st, project)
    IN IF ppos = 0
       THEN Outcome(st, Err("ProjectNotFound", project), <<>>)
       ELSE LET epos == EnvPos(st.projects[ppos].environments, env)
            IN IF epos = 0
               THEN Outcome(st, Err("EnvironmentNotFound", env), <<>>)
               ELSE LET pos == ItemPos(st.projects[ppos].environments[epos].config_items, key)
                    IN IF pos = 0
                       THEN Outcome(st, Err("ConfigItemNotFound", key), <<>>)
                       ELSE LET removed_item ==
                                    st.projects[ppos].environments[epos].config_items[pos]
                                removed == [st EXCEPT
                                    !.projects[ppos].environments[epos].config_items =
                                        RemoveAt(@, pos)]
                                rp == ProjectPos(removed, project)
                                re == EnvPos(removed.projects[rp].environments, env)
                            IN IF saveOutcome # "Ok"
                               THEN Outcome([removed EXCEPT
                                    !.projects[rp].environments[re].config_items =
                                        InsertAt(@, pos, removed_item)],
                                    SaveErr(saveOutcome), <<saveOutcome>>)
                               ELSE Outcome(removed, Ok(NoArg), <<saveOutcome>>)

(***************************************************************************)
(* core/api_key.rs                                                         *)
(***************************************************************************)
\* `uuid` is the value Uuid::new_v4() returned
generate_api_key(st, project, uuid, saveOutcome) ==
    IF ~ \E i \in DOMAIN st.projects : st.projects[i].name = project
    THEN Outcome(st, Err("ProjectNotFound", project), <<>>)
    ELSE LET api_key == ApiKey(uuid, project)
             pushed  == [st EXCEPT !.api_keys = Push(@, api_key)]
         IN IF saveOutcome # "Ok"
            THEN Outcome([pushed EXCEPT !.api_keys = Pop(@)], SaveErr(saveOutcome), <<saveOutcome>>)
            ELSE Outcome(pushed, Ok(api_key), <<saveOutcome>>)

\* revoke_api_key that takes the key out with swap_remove: the last key moves
\* into the place of the removed one
revoke_api_key_swap_remove(st, key, saveOutcome) ==
    LET pos == KeyPos(st, key)
    IN IF pos = 0
       THEN Outcome(st, Err("ApiKeyNotFound", key), <<>>)
       ELSE LET removed_key == st.api_keys[pos]
                last_key == st.api_keys[Len(st.api_keys)]
                removed == [st EXCEPT !.api_keys =
                               Pop(IF pos = Len(@) THEN @ ELSE [@ EXCEPT ![pos] = last_key])]
            IN IF saveOutcome # "Ok"
               THEN Outcome(st, SaveErr(saveOutcome), <<saveOutcome>>)
               ELSE Outcome(removed, Ok(NoArg), <<saveOutcome>>)

revoke_api_key(st, key, saveOutcome) ==
    LET pos == KeyPos(st, key)
    IN IF pos = 0
       THEN Outcome(st, Err("ApiKeyNotFound", key), <<>>)
       ELSE LET removed_key == st.api_keys[pos]
                removed == [st EXCEPT !.api_keys = RemoveAt(@, pos)]
            IN IF saveOutcome # "Ok"
               THEN Outcome([removed EXCEPT !.api_keys = InsertAt(@, pos, removed_key)],
                            SaveErr(saveOutcome), <<saveOutcome>>)
               ELSE Outcome(removed, Ok(NoArg), <<saveOutcome>>)

(***************************************************************************)
(* core/shared.rs                                                          *)
(***************************************************************************)
SharedEnvs(st) == st.shared_group.environments

\* create_shared_item without the uniqueness check
create_shared_item_nocheck(st, env, key, value, saveOutcome) ==
    LET epos == EnvPos(SharedEnvs(st), env)
    IN IF epos = 0
       THEN Outcome(st, Err("EnvironmentNotFound", env), <<>>)
       ELSE LET config_item == ConfigItem(key, value)
                pushed == [st EXCEPT
                    !.shared_group.environments[epos].config_items = Push(@, config_item)]
                re == EnvPos(SharedEnvs(pushed), env)
            IN IF saveOutcome # "Ok"
               THEN Outcome([pushed EXCEPT
                        !.shared_group.environments[re].config_items = Pop(@)],
                        SaveErr(saveOutcome), <<saveOutcome>>)
               ELSE Outcome(pushed, Ok(config_item), <<saveOutcome>>)

create_shared_item(st, env, key, value, saveOutcome) ==
    LET epos == EnvPos(SharedEnvs(st), env)
    IN IF epos = 0
       THEN Outcome(st, Err("EnvironmentNotFound", env), <<>>)
       ELSE IF \E i \in DOMAIN SharedEnvs(st)[epos].config_items :
                   SharedEnvs(st)[epos].config_items[i].key = key
       THEN Outcome(st, Err("ConfigItemAlreadyExists", key), <<>>)
       ELSE LET config_item == ConfigItem(key, value)
                pushed == [st EXCEPT
                    !.shared_group.environments[epos].config_items = Push(@, config_item)]
                re == EnvPos(SharedEnvs(pushed), env)
            IN IF saveOutcome # "Ok"
               THEN Outcome([pushed EXCEPT
                        !.shared_group.environments[re].config_items = Pop(@)],
                        SaveErr(saveOutcome), <<saveOutcome>>)
               ELSE Outcome(pushed, Ok(config_item), <<saveOutcome>>)

\* update_shared_item that creates the item when the key is missing
update_shared_item_upsert(st, env, key, value, saveOutcome) ==
    LET epos == EnvPos(SharedEnvs(st), env)
    IN IF epos = 0
       THEN Outcome(st, Err("EnvironmentNotFound", env), <<>>)
       ELSE LET ipos == ItemPos(SharedEnvs(st)[epos].config_items, key)
            IN IF ipos = 0
               THEN create_shared_item_nocheck(st, env, key, value, saveOutcome)
               ELSE LET old_value == SharedEnvs(st)[epos].config_items[ipos].value
                        set == [st EXCEPT
                            !.shared_group.environments[epos].config_items[ipos].value
                                = value]
                    IN IF saveOutcome # "Ok"
                       THEN Outcome([set EXCEPT
                                !.shared_group.environments[epos].config_items[ipos].value
                                    = old_value],
                                SaveErr(saveOutcome), <<saveOutcome>>)
                       ELSE Outcome(set, Ok(ConfigItem(key, value)), <<saveOutcome>>)

update_shared_item(st, env, key, value, saveOutcome) ==
    LET epos == EnvPos(SharedEnvs(st), env)
    IN IF epos = 0
       THEN Outcome(st, Err("EnvironmentNotFound", env), <<>>)
       ELSE LET ipos == ItemPos(SharedEnvs(st)[epos].config_items, key)
            IN IF ipos = 0
               THEN Outcome(st, Err("ConfigItemNotFound", key), <<>>)
               ELSE LET old_value == SharedEnvs(st)[epos].config_items[ipos].value
                        set == [st EXCEPT
                            !.shared_group.environments[epos].config_items[ipos].value
                                = value]
                        re == EnvPos(SharedEnvs(set), env)
                        ri == ItemPos(SharedEnvs(set)[re].config_items, key)
                    IN IF saveOutcome # "Ok"
                       THEN Outcome([set EXCEPT
                                !.shared_group.environments[re].config_items[ri].value
                                    = old_value],
                                SaveErr(saveOutcome), <<saveOutcome>>)
                       ELSE Outcome(set, Ok(ConfigItem(key, value)), <<saveOutcome>>)

delete_shared_item(st, env, key, saveOutcome) ==
    LET epos == EnvPos(SharedEnvs(st), env)
    IN IF epos = 0
       THEN Outcome(st, Err("EnvironmentNotFound", env), <<>>)
       ELSE LET pos == ItemPos(SharedEnvs(st)[epos].config_items, key)
            IN IF pos = 0
               THEN Outcome(st, Err("ConfigItemNotFound", key), <<>>)
               ELSE LET removed_item == SharedEnvs(st)[epos].config_items[pos]
                        removed == [st EXCEPT
                            !.shared_group.environments[epos].config_items =
                                RemoveAt(@, pos)]
                        re == EnvPos(SharedEnvs(removed), env)
                    IN IF saveOutcome # "Ok"
                       THEN Outcome([removed EXCEPT
                                !.shared_group.environments[re].config_items =
                                    InsertAt(@, pos, removed_item)],
                                SaveErr(saveOutcome), <<saveOutcome>>)
                       ELSE Outcome(removed, Ok(NoArg), <<saveOutcome>>)

\* HashMap::insert
MapInsert(m, k, v) == [x \in DOMAIN m \cup {k} |-> IF x = k THEN v ELSE m[x]]

RECURSIVE InsertItems(_, _)
\* for item in &env.config_items { merged.insert(item.key, item.value) }
InsertItems(m, items) ==
    IF items = <<>> THEN m
    ELSE InsertItems(MapInsert(m, Head(items).key, Head(items).value), Tail(items))

\* HashMap::new()
EmptyMap == [x \in {} |-> NoArg]

\* get_merged_config that lays the shared items over the project's
get_merged_config_shared_wins(st, project, env) ==
    LET ppos == ProjectPos(st, project)
    IN IF ppos = 0
       THEN Err("ProjectNotFound", project)
       ELSE LET epos == EnvPos(st.projects[ppos].environments, env)
            IN IF epos = 0
               THEN Err("EnvironmentNotFound", env)
               ELSE LET proj_env == st.projects[ppos].environments[epos]
                        spos     == EnvPos(SharedEnvs(st), env)
                        own      == InsertItems(EmptyMap, proj_env.config_items)
                    IN Ok(IF spos # 0
                          THEN InsertItems(own, SharedEnvs(st)[spos].config_items)
                          ELSE own)

\* get_merged_config that accepts an environment only the shared group has
get_merged_config_shared_exists(st, project, env) ==
    LET ppos == ProjectPos(st, project)
        spos == EnvPos(SharedEnvs(st), env)
        shared == IF spos # 0
                  THEN InsertItems(EmptyMap, SharedEnvs(st)[spos].config_items)
                  ELSE EmptyMap
    IN IF ppos = 0
       THEN Err("ProjectNotFound", project)
       ELSE LET epos == EnvPos(st.projects[ppos].environments, env)
            IN IF epos = 0
               THEN IF spos # 0 THEN Ok(shared) ELSE Err("EnvironmentNotFound", env)
               ELSE Ok(InsertItems(shared,
                                   st.projects[ppos].environments[epos].config_items))

get_merged_config(st, project, env) ==
    LET ppos == ProjectPos(st, project)
    IN IF ppos = 0
       THEN Err("ProjectNotFound", project)
       ELSE LET epos == EnvPos(st.projects[ppos].environments, env)
            IN IF epos = 0
               THEN Err("EnvironmentNotFound", env)
               ELSE LET proj_env == st.projects[ppos].environments[epos]
                        spos     == EnvPos(SharedEnvs(st), env)
                        shared   == IF spos # 0
                                    THEN InsertItems(EmptyMap, SharedEnvs(st)[spos].config_items)
                                    ELSE EmptyMap
                    IN Ok(InsertItems(shared, proj_env.config_items))

\* get_merged_config_item that looks the key up in the project's environment only
get_merged_config_item_own_only(st, project, env, key) ==
    LET merged == get_merged_config(st, project, env)
    IN IF merged.kind # "Ok" THEN merged
       ELSE LET items == st.projects[ProjectPos(st, project)]
                           .environments[EnvPos(st.projects[ProjectPos(st, project)]
                                                   .environments, env)].config_items
                ipos  == ItemPos(items, key)
            IN IF ipos = 0 THEN Err("ConfigItemNotFound", key)
               ELSE Ok(items[ipos].value)

\* let merged = get_merged_config(..)?; merged.get(key).cloned().ok_or_else(..)
get_merged_config_item(st, project, env, key) ==
    LET merged == get_merged_config(st, project, env)
    IN IF merged.kind # "Ok" THEN merged
       ELSE IF key \in DOMAIN merged.value
            THEN Ok(merged.value[key])
            ELSE Err("ConfigItemNotFound", key)

(***************************************************************************)
(* tui/app.rs                                                              *)
(***************************************************************************)
\* App::ensure_shared_env: push the environment if absent, save, ignore the result
ensure_shared_env(st, env_name, saveOutcome) ==
    IF \E i \in DOMAIN SharedEnvs(st) : SharedEnvs(st)[i].name = env_name
    THEN Outcome(st, Ok(NoArg), <<>>)
    ELSE Outcome([st EXCEPT !.shared_group.environments =
                                Push(@, Environment(env_name, <<>>))],
                 Ok(NoArg), <<saveOutcome>>)

\* App::confirm_create, SharedGroup panel: ensure the environment, then update the
\* item and, when the update returns any error, create it.  s1 is the outcome of
\* the save in ensure_shared_env; s2 that of the save the item operation reaches
\* (update and create never both reach save: a create that follows an update
\* rolled back after its save finds the key and stops at validation)
confirm_create_shared(st, env, key, value, s1, s2) ==
    LET ensured == ensure_shared_env(st, env, s1)
        updated == update_shared_item(ensured.state, env, key, value, s2)
        created == create_shared_item(updated.state, env, key, value, s2)
    IN IF updated.result.kind = "Ok"
       THEN Outcome(updated.state, updated.result, ensured.saves \o updated.saves)
       ELSE Outcome(created.state, created.result,
                    ensured.saves \o updated.saves \o created.saves)

(***************************************************************************)
(* core/api_key.rs, api/auth.rs: access control over the snapshot tree     *)
(***************************************************************************)
\* api_keys.iter().find(|k| k.key == key).ok_or_else(ApiKeyNotFound)
validate_api_key(st, key) ==
    IF KeyPos(st, key) = 0 THEN Err("ApiKeyNotFound", key)
    ELSE Ok(st.api_keys[KeyPos(st, key)])

\* auth_middleware: header is the X-API-Key header (<<>> when absent),
\* requested_project the fourth path segment (<<>> when the path has none);
\* the Result is the status it answers with, Ok when it runs the handler
auth_middleware(st, header, requested_project) ==
    IF header = <<>> THEN Err("Unauthorized", "missing X-API-Key header")
    ELSE LET found == validate_api_key(st, header[1])
         IN IF found.kind = "Ok"
            THEN IF requested_project # <<>>
                      /\ found.value.project # requested_project[1]
                 THEN Err("Forbidden", requested_project[1])
                 ELSE Ok(NoArg)
            ELSE IF found.kind = "ApiKeyNotFound"
                 THEN Err("Unauthorized", "invalid api key")
                 ELSE Err("InternalServerError", "internal error")

(***************************************************************************)
(* The listing operations of core/env.rs, core/config.rs, core/api_key.rs  *)
(***************************************************************************)
list_environments(st, project) ==
    IF ProjectPos(st, project) = 0 THEN Err("ProjectNotFound", project)
    ELSE Ok(st.projects[ProjectPos(st, project)].environments)

\* list_config_items that looks for the environment before the project
list_config_items_env_first(st, project, env) ==
    IF \A i \in DOMAIN st.projects : EnvPos(st.projects[i].environments, env) = 0
    THEN Err("EnvironmentNotFound", env)
    ELSE IF ProjectPos(st, project) = 0 THEN Err("ProjectNotFound", project)
    ELSE LET envs == st.projects[ProjectPos(st, project)].environments
         IN IF EnvPos(envs, env) = 0 THEN Err("EnvironmentNotFound", env)
            ELSE Ok(envs[EnvPos(envs, env)].config_items)

list_config_items(st, project, env) ==
    IF ProjectPos(st, project) = 0 THEN Err("ProjectNotFound", project)
    ELSE LET envs == st.projects[ProjectPos(st, project)].environments
         IN IF EnvPos(envs, env) = 0 THEN Err("EnvironmentNotFound", env)
            ELSE Ok(envs[EnvPos(envs, env)].config_items)

list_api_keys(st, project) ==
    IF ProjectPos(st, project) = 0 THEN Err("ProjectNotFound", project)
    ELSE Ok(SelectSeq(st.api_keys, LAMBDA k : k.project = project))

(***************************************************************************)
(* Directory mode: storage/dir.rs, core/mod.rs, api/handlers.rs            *)
(***************************************************************************)
\* a file of the directory: absent, not parseable as a YAML mapping, or a YAML
\* document with its content
NoFile == [kind |-> "absent", content |-> <<>>]

Malformed == [kind |-> "malformed", content |-> <<>>]

Yaml(content) == [kind |-> "yaml", content |-> content]

\* ProjectMeta as mod.rs and dir.rs use it: the api_keys list of project.yaml
ProjectMeta(api_keys) == [api_keys |-> api_keys]

\* ProjectMeta::default()
DefaultMeta == ProjectMeta(<<>>)

ProjectData(meta, environments) == [meta |-> meta, environments |-> environments]

\* dir.rs's ConfigState { projects, shared }; order is the order in which the
\* projects HashMap of this instance iterates
DirConfigState(projects, order, shared) ==
    [projects |-> projects, order |-> order, shared |-> shared]

\* a directory: `exists`, projects/<name>/ (project.yaml and <env>.yaml) and
\* shared/<env>.yaml
Directory(exists, projects, shared) ==
    [exists |-> exists, projects |-> projects, shared |-> shared]

\* a file read_to_string fails on
Unreadable == [kind |-> "unreadable", content |-> <<>>]

\* a file holding YAML whose top level is no mapping
NotAMapping == [kind |-> "scalar", content |-> <<>>]

\* a load_yaml_map that takes a file it cannot parse for an empty mapping
LoadsAsMapLenient(file) == file.kind \in {"yaml", "malformed"}

\* load_yaml_map returns Some(map) for a readable file holding a mapping
LoadsAsMap(file) == file.kind = "yaml"

\* load_env_configs / load_shared: one entry per *.yaml file load_yaml_map accepts
load_env_configs(files) ==
    [e \in {x \in DOMAIN files : LoadsAsMap(files[x])} |-> files[e].content]

\* load_project_meta: the parsed project.yaml, the default when unreadable
load_project_meta(file) ==
    IF file.kind = "yaml" THEN ProjectMeta(file.content) ELSE DefaultMeta

\* load_projects: one ProjectData per subdirectory of projects/
load_projects(dirs) ==
    [p \in DOMAIN dirs |->
        ProjectData(load_project_meta(dirs[p].meta), load_env_configs(dirs[p].envs))]

\* the orders a HashMap with these keys can iterate in
IterationOrders(S) ==
    {q \in [1..Cardinality(S) -> S] : \A i, j \in DOMAIN q : q[i] = q[j] => i = j}

\* Storage::load(config_dir), which has no failing path: the trees it can build
\* (one per iteration order of the new projects map)
Storage_load(dir) ==
    IF dir.exists
    THEN {DirConfigState(load_projects(dir.projects), o, load_env_configs(dir.shared)) :
            o \in IterationOrders(DOMAIN dir.projects)}
    ELSE {DirConfigState(<<>>, <<>>, <<>>)}

\* the projects, in iteration order, whose project.yaml lists the key
RECURSIVE FirstProjectWithKey(_, _, _)
FirstProjectWithKey(tree, order, key) ==
    IF order = <<>> THEN <<>>
    ELSE IF \E i \in DOMAIN tree.projects[Head(order)].meta.api_keys :
                tree.projects[Head(order)].meta.api_keys[i] = key
         THEN <<Head(order)>>
         ELSE FirstProjectWithKey(tree, Tail(order), key)

\* ConfigCenter::validate_api_key: the project of the first match, else Unauthorized
ConfigCenter_validate_api_key(tree, key) ==
    LET hit == FirstProjectWithKey(tree, tree.order, key)
    IN IF hit = <<>> THEN Err("Unauthorized", "invalid api key")
       ELSE Ok([project |-> hit[1], key |-> key])

\* validate_request that never compares the key's project with the request's
validate_request_any_project(tree, header, project) ==
    IF header = <<>> THEN Err("Unauthorized", "missing X-API-Key header")
    ELSE LET found == ConfigCenter_validate_api_key(tree, header[1])
         IN IF found.kind # "Ok" THEN found ELSE Ok(NoArg)

\* validate_request that answers a key of another project like an unknown key
validate_request_conflated(tree, header, project) ==
    IF header = <<>> THEN Err("Unauthorized", "missing X-API-Key header")
    ELSE LET found == ConfigCenter_validate_api_key(tree, header[1])
         IN IF found.kind # "Ok" THEN found
            ELSE IF found.value.project # project
                 THEN Err("Unauthorized", "invalid api key")
                 ELSE Ok(NoArg)

\* validate_request that looks the project up before it checks the key
validate_request_project_first(tree, header, project) ==
    IF project \notin DOMAIN tree.projects THEN Err("ProjectNotFound", project)
    ELSE IF header = <<>> THEN Err("Unauthorized", "missing X-API-Key header")
    ELSE LET found == ConfigCenter_validate_api_key(tree, header[1])
         IN IF found.kind # "Ok" THEN found
            ELSE IF found.value.project # project
                 THEN Err("Forbidden", project)
                 ELSE Ok(NoArg)

\* handlers.rs validate_request(center, headers, project)
validate_request(tree, header, project) ==
    IF header = <<>> THEN Err("Unauthorized", "missing X-API-Key header")
    ELSE LET found == ConfigCenter_validate_api_key(tree, header[1])
         IN IF found.kind # "Ok" THEN found
            ELSE IF found.value.project # project
                 THEN Err("Forbidden", project)
                 ELSE Ok(NoArg)

(***************************************************************************)
(* core/mod.rs: ${NAME} substitution.  A string is the sequence of its     *)
(* characters; environ maps the names of the set variables to their values *)
(***************************************************************************)
\* str[from..].find(pat): the first position >= from where pat starts, 0 if none
Find(str, from, pat) ==
    First({i \in from..(Len(str) - Len(pat) + 1) : SubSeq(str, i, i + Len(pat) - 1) = pat})

\* the loop with the offset of the scanned text: after a replacement it goes
\* on behind the token's old end
RECURSIVE SubstituteStale(_, _, _)
SubstituteStale(result, search_from, environ) ==
    LET start == Find(result, search_from, <<"$", "{">>)
        end   == IF start = 0 THEN 0 ELSE Find(result, start, <<"}">>)
        name  == SubSeq(result, start + 2, end - 1)
    IN IF start = 0 \/ end = 0 THEN result
       ELSE IF name \in DOMAIN environ
            THEN SubstituteStale(SubSeq(result, 1, start - 1) \o environ[name]
                                    \o SubSeq(result, end + 1, Len(result)),
                                 end + 1, environ)
            ELSE SubstituteStale(result, end + 1, environ)

\* the while loop of substitute_env_in_string: result is the string so far,
\* search_from the (1-based) position the next find starts at
RECURSIVE SubstituteFrom(_, _, _)
SubstituteFrom(result, search_from, environ) ==
    LET start == Find(result, search_from, <<"$", "{">>)
        end   == IF start = 0 THEN 0 ELSE Find(result, start, <<"}">>)
        name  == SubSeq(result, start + 2, end - 1)
    IN IF start = 0 \/ end = 0 THEN result
       ELSE IF name \in DOMAIN environ
            THEN SubstituteFrom(SubSeq(result, 1, start - 1) \o environ[name]
                                    \o SubSeq(result, end + 1, Len(result)),
                                start + Len(environ[name]), environ)
            ELSE SubstituteFrom(result, end + 1, environ)

substitute_env_in_string(str, environ) == SubstituteFrom(str, 1, environ)

\* serde_json::Value: a string (v), a number, bool or null (n), an array
\* (items) or an object (items, each with the key it stands under)
JString(str) == [json |-> "string", v |-> str, n |-> 0, items |-> <<>>, key |-> <<>>]

JScalar(n) == [json |-> "scalar", v |-> <<>>, n |-> n, items |-> <<>>, key |-> <<>>]

JArray(items) == [json |-> "array", v |-> <<>>, n |-> 0, items |-> items, key |-> <<>>]

\* the entry (key, value) of an object
Member(key, value) == [value EXCEPT !.key = key]

JObject(members) == [json |-> "object", v |-> <<>>, n |-> 0, items |-> members, key |-> <<>>]

RECURSIVE resolve_env_vars(_, _)
resolve_env_vars(value, environ) ==
    CASE value.json = "string" -> JString(substitute_env_in_string(value.v, environ))
      [] value.json = "array" ->
            JArray([i \in DOMAIN value.items |-> resolve_env_vars(value.items[i], environ)])
      [] value.json = "object" ->
            JObject([i \in DOMAIN value.items |->
                        Member(value.items[i].key,
                               resolve_env_vars(value.items[i], environ))])
      [] OTHER -> value

(***************************************************************************)
(* storage/file.rs: the snapshot file.  serde's derived Serialize and      *)
(* Deserialize of models.rs, on JSON documents; a name or a config value   *)
(* is a JSON string of one piece                                           *)
(***************************************************************************)
JNull == [json |-> "null", v |-> <<>>, n |-> 0, items |-> <<>>, key |-> <<>>]

Text(s) == JString(<<s>>)

JArrayOf(list, ToJson(_)) == JArray([i \in DOMAIN list |-> ToJson(list[i])])

item_to_json(item) ==
    JObject(<<Member(<<"key">>, Text(item.key)), Member(<<"value">>, Text(item.value))>>)

env_to_json(env) ==
    JObject(<<Member(<<"name">>, Text(env.name)),
              Member(<<"config_items">>, JArrayOf(env.config_items, item_to_json))>>)

project_to_json(project) ==
    JObject(<<Member(<<"name">>, Text(project.name)),
              Member(<<"description">>,
                     IF project.description = <<>> THEN JNull
                     ELSE Text(project.description[1])),
              Member(<<"environments">>, JArrayOf(project.environments, env_to_json))>>)

api_key_to_json(api_key) ==
    JObject(<<Member(<<"key">>, Text(api_key.key)),
              Member(<<"project">>, Text(api_key.project))>>)

\* serde_json::to_string_pretty(&self.state)
to_json(st) ==
    JObject(<<Member(<<"projects">>, JArrayOf(st.projects, project_to_json)),
              Member(<<"shared_group">>,
                     JObject(<<Member(<<"environments">>,
                                      JArrayOf(st.shared_group.environments, env_to_json))>>)),
              Member(<<"api_keys">>, JArrayOf(st.api_keys, api_key_to_json))>>)

\* the entries of an object under a field name
Field(doc, name) == SelectSeq(doc.items, LAMBDA m : m.key = <<name>>)

\* a struct's required fields: an object with each of them once
HasFields(doc, names) ==
    /\ doc.json = "object"
    /\ \A name \in names : Len(Field(doc, name)) = 1

Get(doc, name) == Field(doc, name)[1]

IsText(doc) == doc.json = "string" /\ Len(doc.v) = 1

IsArrayOf(doc, Parses(_)) ==
    /\ doc.json = "array"
    /\ \A i \in DOMAIN doc.items : Parses(doc.items[i])

ParsesItem(doc) ==
    /\ HasFields(doc, {"key", "value"})
    /\ IsText(Get(doc, "key"))
    /\ IsText(Get(doc, "value"))

ParsesEnv(doc) ==
    /\ HasFields(doc, {"name", "config_items"})
    /\ IsText(Get(doc, "name"))
    /\ IsArrayOf(Get(doc, "config_items"), ParsesItem)

\* description: Option<String>, None when the field is missing or null
ParsesProject(doc) ==
    /\ HasFields(doc, {"name", "environments"})
    /\ IsText(Get(doc, "name"))
    /\ Len(Field(doc, "description")) <= 1
    /\ Len(Field(doc, "description")) = 1
          => IsText(Get(doc, "description")) \/ Get(doc, "description").json = "null"
    /\ IsArrayOf(Get(doc, "environments"), ParsesEnv)

ParsesApiKey(doc) ==
    /\ HasFields(doc, {"key", "project"})
    /\ IsText(Get(doc, "key"))
    /\ IsText(Get(doc, "project"))

ParsesState(doc) ==
    /\ HasFields(doc, {"projects", "shared_group", "api_keys"})
    /\ IsArrayOf(Get(doc, "projects"), ParsesProject)
    /\ HasFields(Get(doc, "shared_group"), {"environments"})
    /\ IsArrayOf(Get(Get(doc, "shared_group"), "environments"), ParsesEnv)
    /\ IsArrayOf(Get(doc, "api_keys"), ParsesApiKey)

ListOf(doc, FromJson(_)) == [i \in DOMAIN doc.items |-> FromJson(doc.items[i])]

item_from_json(doc) == ConfigItem(Get(doc, "key").v[1], Get(doc, "value").v[1])

env_from_json(doc) ==
    Environment(Get(doc, "name").v[1], ListOf(Get(doc, "config_items"), item_from_json))

\* a project read with a null description taken for the empty string
project_from_json_null_as_empty(doc) ==
    Project(Get(doc, "name").v[1],
            IF Field(doc, "description") = <<>> THEN <<>>
            ELSE IF Get(doc, "description").json = "null" THEN <<"">>
                 ELSE <<Get(doc, "description").v[1]>>,
            ListOf(Get(doc, "environments"), env_from_json))

project_from_json(doc) ==
    Project(Get(doc, "name").v[1],
            IF Field(doc, "description") = <<>> \/ Get(doc, "description").json = "null"
            THEN <<>>
            ELSE <<Get(doc, "description").v[1]>>,
            ListOf(Get(doc, "environments"), env_from_json))

api_key_from_json(doc) == ApiKey(Get(doc, "key").v[1], Get(doc, "project").v[1])

\* serde_json::from_str::<ConfigState>(&content)
from_json(doc) ==
    IF ~ ParsesState(doc) THEN Err("StorageError", "parse")
    ELSE Ok(ConfigState(ListOf(Get(doc, "projects"), project_from_json),
                        ListOf(Get(Get(doc, "shared_group"), "environments"), env_from_json),
                        ListOf(Get(doc, "api_keys"), api_key_from_json)))

\* what is at file_path: nothing, a file that cannot be read, text that is no
\* JSON, or a JSON document
NoSnapshot == [exists |-> FALSE, kind |-> "absent", doc |-> JNull]

UnreadableFile == [exists |-> TRUE, kind |-> "unreadable", doc |-> JNull]

GarbledFile == [exists |-> TRUE, kind |-> "garbled", doc |-> JNull]

JsonFile(doc) == [exists |-> TRUE, kind |-> "json", doc |-> doc]

\* Storage::load of file.rs that hands a parse error on
FileStorage_load_strict(file) ==
    IF ~ file.exists THEN Ok(empty_state)
    ELSE IF file.kind = "unreadable" THEN Ok(empty_state)
         ELSE IF file.kind = "garbled" THEN Err("StorageError", "parse")
              ELSE from_json(file.doc)

\* Storage::load of file.rs: the tree of the store it returns
FileStorage_load(file) ==
    IF ~ file.exists THEN Ok(empty_state)
    ELSE IF file.kind = "unreadable" THEN Ok(empty_state)
         ELSE IF file.kind = "garbled" THEN Ok(empty_state)
              ELSE LET parsed == from_json(file.doc)
                   IN IF parsed.kind = "Ok" THEN parsed ELSE Ok(empty_state)

(***************************************************************************)
(* State machine                                                           *)
(***************************************************************************)
\* the arguments that address the entity (values travel in the Result)
Args(project, env, key) == [project |-> project, env |-> env, key |-> key]

RECURSIVE SumItems(_)
SumItems(envs) ==
    IF envs = <<>> THEN 0
    ELSE 1 + Len(Head(envs).config_items) + SumItems(Tail(envs))

RECURSIVE SumProjects(_)
SumProjects(projects) ==
    IF projects = <<>> THEN 0
    ELSE 1 + SumItems(Head(projects).environments) + SumProjects(Tail(projects))

\* number of entities in a tree
Nodes(st) ==
    SumProjects(st.projects) + SumItems(st.shared_group.environments) + Len(st.api_keys)

\* Storage::save as an operation calls it: a save that returns Ok has written
\* the tree; std::fs::write that fails has left the file alone (it could not
\* be opened) or cut it short (the write failed after File::create truncated it)
FileAfter(file, r) ==
    IF r.saves = <<>> THEN {file}
    ELSE IF r.saves[Len(r.saves)] = "Ok" THEN {JsonFile(to_json(r.state))}
         ELSE {GarbledFile}
                 \cup (IF \E i \in DOMAIN r.saves : r.saves[i] = "Ok"
                       THEN {JsonFile(to_json(r.state))} ELSE {file})

\* an operation was called with the tree `state` and left outcome r
Do(op, args, r) ==
    /\ before' = state
    /\ state' = r.state
    /\ last' = [op |-> op, args |-> args, result |-> r.result, saves |-> r.saves]
    /\ UNCHANGED <<app, dirVars>>

\* ... and the tree it left has at most cap entities
DoWithin(cap, op, args, r) == Nodes(r.state) <= cap /\ Do(op, args, r)

\* A call of an engine operation Op(saveOutcome).  The save's outcome is an input
\* only when the operation reaches save: r0, the call with a successful save,
\* tells (r0.saves = <<>> when it returned at validation).
Call(cap, op, args, Op(_)) ==
    \E r0 \in {Op("Ok")} :
      \E s \in (IF r0.saves = <<>> THEN {"Ok"} ELSE SaveOutcomes) :
        \E r \in {IF s = "Ok" THEN r0 ELSE Op(s)} :
            DoWithin(cap, op, args, r)

AnyValue == CHOOSE v \in Values : TRUE

\* the same for an operation Op(value, saveOutcome) that stores a value
CallV(cap, op, args, Op(_, _)) ==
    \E r0 \in {Op(AnyValue, "Ok")} :
      \E value \in (IF r0.saves = <<>> THEN {AnyValue} ELSE Values) :
        Call(cap, op, args, LAMBDA s : Op(value, s))

CallAny(op, args, Op(_)) ==
    \E r0 \in {Op("Ok")} :
      \E s \in (IF r0.saves = <<>> THEN {"Ok"} ELSE SaveOutcomes) :
        \E r \in {IF s = "Ok" THEN r0 ELSE Op(s)} :
            Do(op, args, r)

\* no directory-mode deployment
NoDirectory == Directory(FALSE, <<>>, <<>>)

\* no notification
NoMsg == [kind |-> "none", exts |-> {}, at |-> 0, raised_in |-> "none", cycle |-> 0]

IdleWatcher == [pc |-> "idle", msg |-> NoMsg]

\* the reload task parked in rx.recv().await
IdleReloader(tree, dir) ==
    [pc |-> "recv", trigger |-> NoMsg, new_center |-> tree, scanned |-> dir, scanned_at |-> 0]

\* no request in flight; a request is a call of a handler with its X-API-Key
\* header and path, the results of its steps and the tree each step read
IdleRequest(tree) ==
    [pc |-> "idle", auth |-> Ok(NoArg), auth_tree |-> tree,
     configs |-> Ok(NoArg), configs_tree |-> tree,
     handler |-> "get_all_configs", header |-> <<"key-1">>, project |-> "app",
     env |-> "default", key |-> <<>>,
     env_vars |-> Ok(NoArg), env_vars_tree |-> tree, response |-> Ok(NoArg)]

\* no terminal UI runs
NoApp == [running |-> FALSE]

\* the watcher, the channel, the reload task and the lock right after serve started them
PipelineIdle ==
    /\ events = <<>>
    /\ watcher = IdleWatcher
    /\ chan = <<>>
    /\ reloader = IdleReloader(center, disk)
    /\ rwlock = [readers |-> 0, writer_waiting |-> FALSE]
    /\ request = IdleRequest(center)
    /\ hist = [edits |-> 0, last_yaml |-> 0, qualifying |-> 0, raised |-> 0,
               consumed |-> 0, cycles |-> 0, served_at |-> 0, keys |-> 0]

NoDeployment ==
    /\ disk = NoDirectory
    /\ center = DirConfigState(<<>>, <<>>, <<>>)
    /\ PipelineIdle
    /\ app = NoApp

\* Storage::load of an absent file (the tests' test_storage)
Init ==
    /\ state = empty_state
    /\ before = empty_state
    /\ last = [op |-> "load", args |-> Args(NoArg, NoArg, NoArg),
               result |-> Ok(NoArg), saves |-> <<>>]
    /\ NoDeployment

CreateProject(cap) ==
    \E name \in ProjectNames, d \in Descriptions :
        Call(cap, "create_project", Args(name, NoArg, NoArg),
             LAMBDA s : create_project(state, name, d, s))

DeleteProject ==
    \E name \in ProjectNames :
        CallAny("delete_project", Args(name, NoArg, NoArg),
                LAMBDA s : delete_project(state, name, s))

CreateEnvironment(cap) ==
    \E project \in ProjectNames, env \in EnvNames :
        Call(cap, "create_environment", Args(project, env, NoArg),
             LAMBDA s : create_environment(state, project, env, s))

DeleteEnvironment ==
    \E project \in ProjectNames, env \in EnvNames :
        CallAny("delete_environment", Args(project, env, NoArg),
                LAMBDA s : delete_environment(state, project, env, s))

CreateConfigItem(cap) ==
    \E project \in ProjectNames, env \in EnvNames, key \in Keys :
        CallV(cap, "create_config_item", Args(project, env, key),
              LAMBDA v, s : create_config_item(state, project, env, key, v, s))

UpdateConfigItem(cap) ==
    \E project \in ProjectNames, env \in EnvNames, key \in Keys :
        CallV(cap, "update_config_item", Args(project, env, key),
              LAMBDA v, s : update_config_item(state, project, env, key, v, s))

DeleteConfigItem ==
    \E project \in ProjectNames, env \in EnvNames, key \in Keys :
        CallAny("delete_config_item", Args(project, env, key),
                LAMBDA s : delete_config_item(state, project, env, key, s))

\* Uuid::new_v4() is taken to return a value no stored key has
FreshUuids(st, pool) == pool \ {st.api_keys[i].key : i \in DOMAIN st.api_keys}

GenerateApiKey(cap, pool) ==
    \E project \in ProjectNames, uuid \in FreshUuids(state, pool) :
        Call(cap, "generate_api_key", Args(project, NoArg, NoArg),
             LAMBDA s : generate_api_key(state, project, uuid, s))

RevokeApiKey(pool) ==
    \E key \in pool :
        CallAny("revoke_api_key", Args(NoArg, NoArg, key),
                LAMBDA s : revoke_api_key(state, key, s))

CreateSharedItem(cap) ==
    \E env \in EnvNames, key \in Keys :
        CallV(cap, "create_shared_item", Args(NoArg, env, key),
              LAMBDA v, s : create_shared_item(state, env, key, v, s))

UpdateSharedItem(cap) ==
    \E env \in EnvNames, key \in Keys :
        CallV(cap, "update_shared_item", Args(NoArg, env, key),
              LAMBDA v, s : update_shared_item(state, env, key, v, s))

DeleteSharedItem ==
    \E env \in EnvNames, key \in Keys :
        CallAny("delete_shared_item", Args(NoArg, env, key),
                LAMBDA s : delete_shared_item(state, env, key, s))

\* Enter in the create form of the TUI's Shared Group panel
ConfirmCreateShared(cap) ==
    \E env \in EnvNames, key \in Keys, value \in Values, s2 \in SaveOutcomes :
        Call(cap, "confirm_create_shared", Args(NoArg, env, key),
             LAMBDA s1 : confirm_create_shared(state, env, key, value, s1, s2))

\* resolve: a read of the merged configuration
GetMergedConfig ==
    \E project \in ProjectNames, env \in EnvNames :
        /\ before' = state
        /\ state' = state
        /\ last' = [op |-> "get_merged_config", args |-> Args(project, env, NoArg),
                    result |-> get_merged_config(state, project, env), saves |-> <<>>]
        /\ UNCHANGED <<app, dirVars>>

\* resolve_item: a read of one key of the merged configuration
GetMergedConfigItem ==
    \E project \in ProjectNames, env \in EnvNames, key \in Keys :
        /\ before' = state
        /\ state' = state
        /\ last' = [op |-> "get_merged_config_item", args |-> Args(project, env, key),
                    result |-> get_merged_config_item(state, project, env, key),
                    saves |-> <<>>]
        /\ UNCHANGED <<app, dirVars>>

Next ==
    \/ CreateProject(MaxNodes)
    \/ DeleteProject
    \/ CreateEnvironment(MaxNodes)
    \/ DeleteEnvironment
    \/ CreateConfigItem(MaxNodes)
    \/ UpdateConfigItem(MaxNodes)
    \/ DeleteConfigItem
    \/ GenerateApiKey(MaxNodes, Uuids)
    \/ RevokeApiKey(Uuids)
    \/ CreateSharedItem(MaxNodes)
    \/ UpdateSharedItem(MaxNodes)
    \/ DeleteSharedItem
    \/ ConfirmCreateShared(MaxNodes)
    \/ GetMergedConfig

Spec == Init /\ [][Next]_vars

(***************************************************************************)
(* Projects and their API keys alone: enough keys for a project's keys to  *)
(* lie between another project's.                                          *)
(***************************************************************************)
MaxCascadeKeys == 3

CascadeUuids == {"uuid-" \o ToString(i) : i \in 1..MaxCascadeKeys}

\* every project with its default environment, and every key
CascadeNodes == 2 * Cardinality(ProjectNames) + MaxCascadeKeys

NextCascade ==
    \/ CreateProject(CascadeNodes)
    \/ DeleteProject
    \/ GenerateApiKey(CascadeNodes, CascadeUuids)
    \/ RevokeApiKey(CascadeUuids)

SpecCascade == Init /\ [][NextCascade]_vars

\* the sequences without repetition of at most n elements of S
RECURSIVE ArrangementsOf(_, _)
ArrangementsOf(S, n) ==
    IF n = 0 THEN {<<>>}
    ELSE LET shorter == ArrangementsOf(S, n - 1)
         IN shorter \cup
            {Append(q, x) : q \in {r \in shorter : Len(r) = n - 1}, x \in S}

NoRepeat(seq) == \A i, j \in DOMAIN seq : seq[i] = seq[j] => i = j

(***************************************************************************)
(* Access control: requests against a tree loaded from a directory whose   *)
(* project.yaml files list keys (handlers.rs), and against a snapshot tree *)
(* with generated keys (auth.rs).                                          *)
(***************************************************************************)
MaxDirKeys == 2

DirKeys == {"key-" \o ToString(i) : i \in 1..MaxDirKeys}

\* the X-API-Key header: absent, a key that may be stored, or one never stored
Headers(pool) == {<<>>} \cup {<<k>> : k \in pool \cup {"bad-key"}}

HeaderKey(header) == IF header = <<>> THEN NoArg ELSE header[1]

MetaFiles ==
    {NoFile, Malformed}
        \cup {Yaml(ks) : ks \in {q \in ArrangementsOf(DirKeys, MaxDirKeys) : NoRepeat(q)}}

ProjectDirs(metas, envFiles) == [meta : metas, envs : envFiles]

AccessDisks ==
    {Directory(TRUE, dirs, <<>>) :
        dirs \in UNION {[P -> ProjectDirs(MetaFiles, {<<>>})] : P \in SUBSET ProjectNames}}

\* snapshot trees generate_api_key and revoke_api_key leave
AccessSnapshots ==
    {ConfigState(ps, <<>>, ks) :
        ps \in {[i \in DOMAIN ns |-> Project(ns[i], <<>>, <<Environment("default", <<>>)>>)] :
                  ns \in {q \in ArrangementsOf(ProjectNames, Cardinality(ProjectNames)) :
                            NoRepeat(q)}},
        ks \in {[i \in DOMAIN us |-> ApiKey(us[i], owner[i])] :
                  us \in {q \in ArrangementsOf(Uuids, Cardinality(Uuids)) : NoRepeat(q)},
                  owner \in [1..Cardinality(Uuids) -> ProjectNames]}}

WellBound(st) == \A i \in DOMAIN st.api_keys : ProjectPos(st, st.api_keys[i].project) # 0

InitAccess ==
    /\ \/ /\ disk \in AccessDisks
          /\ center \in Storage_load(disk)
          /\ PipelineIdle
          /\ app = NoApp
          /\ state = empty_state
       \/ /\ NoDeployment
          /\ state \in {st \in AccessSnapshots : WellBound(st)}
    /\ before = state
    /\ last = [op |-> "load", args |-> Args(NoArg, NoArg, NoArg),
               result |-> Ok(NoArg), saves |-> <<>>]

\* a request to a handler of api/handlers.rs reaches validate_request
ValidateRequest ==
    /\ disk.exists
    /\ \E header \in Headers(DirKeys), project \in ProjectNames :
          last' = [op |-> "validate_request",
                   args |-> Args(project, NoArg, HeaderKey(header)),
                   result |-> validate_request(center, header, project),
                   saves |-> <<>>]
    /\ UNCHANGED <<app, state, before, dirVars>>

\* a request passes through auth_middleware
AuthMiddleware ==
    /\ ~ disk.exists
    /\ \E header \in Headers(Uuids),
          requested_project \in {<<>>} \cup {<<p>> : p \in ProjectNames} :
          last' = [op |-> "auth_middleware",
                   args |-> Args(HeaderKey(requested_project), NoArg, HeaderKey(header)),
                   result |-> auth_middleware(state, header, requested_project),
                   saves |-> <<>>]
    /\ UNCHANGED <<app, state, before, dirVars>>

NextAccess == ValidateRequest \/ AuthMiddleware

SpecAccess == InitAccess /\ [][NextAccess]_vars

(***************************************************************************)
(* Substitution in strings put together from tokens and literal text       *)
(***************************************************************************)
MaxPieces == 3

\* ${X}, ${Y}, ${}, the unterminated ${X and single characters
Pieces ==
    {<<"$", "{", "X", "}">>, <<"$", "{", "Y", "}">>, <<"$", "{", "}">>, <<"$", "{", "X">>,
     <<"$">>, <<"{">>, <<"}">>, <<"a">>}

RECURSIVE Concat(_)
Concat(seqs) == IF seqs = <<>> THEN <<>> ELSE Head(seqs) \o Concat(Tail(seqs))

SubstInputs == {Concat(ps) : ps \in UNION {[1..n -> Pieces] : n \in 0..MaxPieces}}

\* process environments: X set to a short, an empty or a token-like value and Y
\* unset; X set to the token of Y and Y set; nothing set
Environs ==
    {[n \in {<<"X">>} |-> v] : v \in {<<"h", "i">>, <<>>, <<"$", "{", "X", "}">>, <<"$">>}}
        \cup {[n \in {<<"X">>, <<"Y">>} |->
                  IF n = <<"X">> THEN <<"$", "{", "Y", "}">> ELSE <<"h", "i">>]}
        \cup {<<>>}

InitSubst ==
    /\ state = empty_state
    /\ before = empty_state
    /\ NoDeployment
    /\ \E str \in SubstInputs, environ \in Environs :
          last = [op |-> "input", args |-> [str |-> str, environ |-> environ],
                  result |-> Ok(str), saves |-> <<>>]

Substitute ==
    /\ last.op = "input"
    /\ last' = [last EXCEPT
                  !.op = "substitute_env_in_string",
                  !.result = Ok(substitute_env_in_string(last.args.str, last.args.environ))]
    /\ UNCHANGED <<app, state, before, dirVars>>

NextSubst == Substitute

SpecSubst == InitSubst /\ [][NextSubst]_vars

(***************************************************************************)
(* substitute_env_in_string, one loop iteration at a time                  *)
(***************************************************************************)
\* the locals of the loop
LoopState(result, search_from, running) ==
    [result |-> result, search_from |-> search_from, running |-> running]

\* an iteration that, after a replacement, scans on from the start of the
\* inserted text
IterationRescanning(loop, environ) ==
    LET start == Find(loop.result, loop.search_from, <<"$", "{">>)
        end   == IF start = 0 THEN 0 ELSE Find(loop.result, start, <<"}">>)
        name  == SubSeq(loop.result, start + 2, end - 1)
    IN IF start = 0 \/ end = 0 THEN LoopState(loop.result, loop.search_from, FALSE)
       ELSE IF name \in DOMAIN environ
            THEN LoopState(SubSeq(loop.result, 1, start - 1) \o environ[name]
                              \o SubSeq(loop.result, end + 1, Len(loop.result)),
                           start, TRUE)
            ELSE LoopState(loop.result, end + 1, TRUE)

\* one evaluation of the while condition and, if it holds, of the body
Iteration(loop, environ) ==
    LET start == Find(loop.result, loop.search_from, <<"$", "{">>)
        end   == IF start = 0 THEN 0 ELSE Find(loop.result, start, <<"}">>)
        name  == SubSeq(loop.result, start + 2, end - 1)
    IN IF start = 0 \/ end = 0 THEN LoopState(loop.result, loop.search_from, FALSE)
       ELSE IF name \in DOMAIN environ
            THEN LoopState(SubSeq(loop.result, 1, start - 1) \o environ[name]
                              \o SubSeq(loop.result, end + 1, Len(loop.result)),
                           start + Len(environ[name]), TRUE)
            ELSE LoopState(loop.result, end + 1, TRUE)

\* let mut result = s.to_string(); let mut search_from = 0;
InitSubstLoop ==
    /\ state = empty_state
    /\ before = empty_state
    /\ NoDeployment
    /\ \E str \in SubstInputs, environ \in Environs :
          last = [op |-> "substitute_loop", args |-> [str |-> str, environ |-> environ],
                  result |-> Ok(LoopState(str, 1, TRUE)), saves |-> <<>>]

\* the loop goes round once more
SubstituteIterate ==
    /\ last.op = "substitute_loop"
    /\ Iteration(last.result.value, last.args.environ).running
    /\ last' = [last EXCEPT !.result = Ok(Iteration(last.result.value, last.args.environ))]
    /\ UNCHANGED <<app, state, before, dirVars>>

\* the loop ends and result is returned
SubstituteReturn ==
    /\ last.op = "substitute_loop"
    /\ ~ Iteration(last.result.value, last.args.environ).running
    /\ last' = [last EXCEPT !.op = "substitute_returned",
                            !.result = Ok(Iteration(last.result.value, last.args.environ))]
    /\ UNCHANGED <<app, state, before, dirVars>>

NextSubstLoop == SubstituteIterate \/ SubstituteReturn

SpecSubstLoop == InitSubstLoop /\ [][NextSubstLoop]_vars

(***************************************************************************)
(* Hot reload: main.rs serve (watcher thread, channel, reload task) and    *)
(* api/handlers.rs get_all_configs under the RwLock                        *)
(***************************************************************************)
MaxEdits == 3

\* tokio::sync::mpsc::channel::<()>(1)
ChannelCapacity == 1

\* the environment of the server process
ProcessEnv == [n \in {<<"X">>} |-> <<"h", "i">>]

\* ConfigCenter::get_merged_config of core/mod.rs, std::env::var answering from environ
ConfigCenter_get_merged_config_in(tree, project, env, environ) ==
    IF project \notin DOMAIN tree.projects THEN Err("ProjectNotFound", project)
    ELSE IF env \notin DOMAIN tree.projects[project].environments
         THEN Err("EnvironmentNotFound", env)
         ELSE LET proj_env   == tree.projects[project].environments[env]
                  shared_env == IF env \in DOMAIN tree.shared THEN tree.shared[env] ELSE <<>>
                  merged     == [k \in DOMAIN shared_env \cup DOMAIN proj_env |->
                                    IF k \in DOMAIN proj_env THEN proj_env[k] ELSE shared_env[k]]
              IN Ok([k \in DOMAIN merged |-> resolve_env_vars(merged[k], environ)])

\* get_merged_config in the server process
ConfigCenter_get_merged_config(tree, project, env) ==
    ConfigCenter_get_merged_config_in(tree, project, env, ProcessEnv)

\* ConfigCenter::new(config_dir)
ConfigCenter_new(dir) == {Ok(tree) : tree \in Storage_load(dir)}

\* the n-th content written to an environment file
Version(n) == [port |-> JScalar(n)]

\* config/projects/app/{project.yaml, default.yaml}
ServedDirectory(file) ==
    Directory(TRUE,
              [p \in {"app"} |-> [meta |-> Yaml(<<"key-1">>),
                                  envs |-> [e \in {"default"} |-> file]]],
              <<>>)

EnvFile(dir) == dir.projects["app"].envs["default"]

\* a notify::Event: its kind, the extensions of its paths, the edit behind it
Event(kind, exts, at) == [kind |-> kind, exts |-> exts, at |-> at]

\* the callback's filter that looks at the extension only
TriggersAnyKind(event) ==
    \E e \in event.exts : e = "yaml" \/ e = "yml"

\* the callback's filter: Modify or Create, and some path with extension yaml or yml
Triggers(event) ==
    /\ event.kind \in {"Modify", "Create"}
    /\ \E e \in event.exts : e = "yaml" \/ e = "yml"

\* the phases of the pipeline
Phase(pc) ==
    CASE pc = "recv" -> "Idle"
      [] pc \in {"sleep", "drain"} -> "PendingReload"
      [] pc \in {"load", "swap"} -> "Reloading"

\* the unit message the callback sends, with when and why it was raised
Notification(event) ==
    [kind |-> event.kind, exts |-> event.exts, at |-> event.at,
     raised_in |-> reloader.pc, cycle |-> hist.cycles]

\* a send that gives up when the channel is full
try_send(ch, msg) ==
    IF Len(ch) < ChannelCapacity
    THEN [chan |-> Append(ch, msg), watcher |-> IdleWatcher]
    ELSE [chan |-> ch, watcher |-> IdleWatcher]

\* tx.blocking_send(()): the message is queued, or the thread blocks holding it
blocking_send(ch, msg) ==
    IF Len(ch) < ChannelCapacity
    THEN [chan |-> Append(ch, msg), watcher |-> IdleWatcher]
    ELSE [chan |-> ch, watcher |-> [pc |-> "sending", msg |-> msg]]

\* an edit of the directory and the event notify reports for it
Edited(file, kind, exts) ==
    /\ hist.edits < MaxEdits
    /\ disk' = ServedDirectory(file)
    /\ LET event == Event(kind, exts, hist.edits + 1)
       IN /\ events' = Append(events, event)
          /\ hist' = [hist EXCEPT
                        !.edits = @ + 1,
                        !.last_yaml = IF Triggers(event) THEN hist.edits + 1 ELSE @,
                        !.qualifying = IF Triggers(event) THEN @ + 1 ELSE @]
    /\ UNCHANGED <<app, state, before, last, center, watcher, chan, reloader, rwlock, request>>

\* default.yaml is written with new content
WriteEnv ==
    Edited(Yaml(Version(hist.edits + 1)),
           IF EnvFile(disk).kind = "absent" THEN "Create" ELSE "Modify", {"yaml"})

\* default.yaml is written with text that is no YAML mapping
WriteMalformed ==
    Edited(Malformed, IF EnvFile(disk).kind = "absent" THEN "Create" ELSE "Modify", {"yaml"})

\* default.yaml is removed
RemoveEnv ==
    /\ EnvFile(disk).kind # "absent"
    /\ Edited(NoFile, "Remove", {"yaml"})

\* a file that is no configuration file is written
WriteOther == Edited(EnvFile(disk), "Modify", {"txt"})

\* the watcher callback runs for the next event
WatcherCallback ==
    /\ watcher.pc = "idle"
    /\ events # <<>>
    /\ events' = Tail(events)
    /\ IF Triggers(Head(events))
       THEN LET sent == blocking_send(chan, Notification(Head(events)))
            IN /\ chan' = sent.chan
               /\ watcher' = sent.watcher
               /\ hist' = [hist EXCEPT !.raised = @ + 1]
       ELSE UNCHANGED <<chan, watcher, hist>>
    /\ UNCHANGED <<app, state, before, last, disk, center, reloader, rwlock, request>>

\* a blocked blocking_send gets the free slot
WatcherUnblock ==
    /\ watcher.pc = "sending"
    /\ Len(chan) < ChannelCapacity
    /\ chan' = Append(chan, watcher.msg)
    /\ watcher' = IdleWatcher
    /\ UNCHANGED <<app, state, before, last, disk, center, events, reloader, rwlock, request, hist>>

\* rx.recv().await returns a message
ReloaderRecv ==
    /\ reloader.pc = "recv"
    /\ chan # <<>>
    /\ chan' = Tail(chan)
    /\ reloader' = [reloader EXCEPT !.pc = "sleep", !.trigger = Head(chan)]
    /\ hist' = [hist EXCEPT !.consumed = @ + 1, !.cycles = @ + 1]
    /\ UNCHANGED <<app, state, before, last, disk, center, events, watcher, rwlock, request>>

\* the 500 ms sleep ends; a sender that was given the free slot has long queued
\* its message by then
ReloaderTimer ==
    /\ reloader.pc = "sleep"
    /\ ~ (watcher.pc = "sending" /\ Len(chan) < ChannelCapacity)
    /\ reloader' = [reloader EXCEPT !.pc = "drain"]
    /\ UNCHANGED <<app, state, before, last, disk, center, events, watcher, chan, rwlock,
                   request, hist>>

\* a reload task that asks for the write lock before it scans the directory
ReloaderDrainThenLock ==
    /\ reloader.pc = "drain"
    /\ IF chan # <<>>
       THEN /\ chan' = Tail(chan)
            /\ hist' = [hist EXCEPT !.consumed = @ + 1]
            /\ UNCHANGED <<reloader, rwlock>>
       ELSE /\ reloader' = [reloader EXCEPT !.pc = "load"]
            /\ rwlock' = [rwlock EXCEPT !.writer_waiting = TRUE]
            /\ UNCHANGED <<chan, hist>>
    /\ UNCHANGED <<app, state, before, last, disk, center, events, watcher, request>>

\* while rx.try_recv().is_ok() {}: one try_recv
ReloaderDrain ==
    /\ reloader.pc = "drain"
    /\ IF chan # <<>>
       THEN /\ chan' = Tail(chan)
            /\ hist' = [hist EXCEPT !.consumed = @ + 1]
            /\ UNCHANGED reloader
       ELSE /\ reloader' = [reloader EXCEPT !.pc = "load"]
            /\ UNCHANGED <<chan, hist>>
    /\ UNCHANGED <<app, state, before, last, disk, center, events, watcher, rwlock, request>>

\* match ConfigCenter::new(&reload_path): Ok goes on to write().await, Err back to recv
ReloaderLoad ==
    /\ reloader.pc = "load"
    /\ \E loaded \in ConfigCenter_new(disk) :
          IF loaded.kind = "Ok"
          THEN /\ reloader' = [reloader EXCEPT !.pc = "swap", !.new_center = loaded.value,
                                               !.scanned = disk, !.scanned_at = hist.edits]
               /\ rwlock' = [rwlock EXCEPT !.writer_waiting = TRUE]
          ELSE /\ reloader' = [reloader EXCEPT !.pc = "recv"]
               /\ UNCHANGED rwlock
    /\ UNCHANGED <<app, state, before, last, disk, center, events, watcher, chan, request, hist>>

\* a write lock handed out whatever the readers
WriteGrantedAlways(lock) == TRUE

\* write().await resolves once no reader holds the lock
WriteGranted(lock) == lock.readers = 0

\* read().await resolves unless a writer is queued
ReadGranted(lock) == ~ lock.writer_waiting

\* the reload that finishes without replacing the served tree
ReloaderSwapKeepsOld ==
    /\ reloader.pc = "swap"
    /\ WriteGranted(rwlock)
    /\ center' = center
    /\ rwlock' = [rwlock EXCEPT !.writer_waiting = FALSE]
    /\ reloader' = [reloader EXCEPT !.pc = "recv"]
    /\ hist' = [hist EXCEPT !.served_at = reloader.scanned_at]
    /\ UNCHANGED <<app, state, before, last, disk, events, watcher, chan, request>>

\* *center = new_center under the write lock
ReloaderSwap ==
    /\ reloader.pc = "swap"
    /\ WriteGranted(rwlock)
    /\ center' = reloader.new_center
    /\ rwlock' = [rwlock EXCEPT !.writer_waiting = FALSE]
    /\ reloader' = [reloader EXCEPT !.pc = "recv"]
    /\ hist' = [hist EXCEPT !.served_at = reloader.scanned_at]
    /\ UNCHANGED <<app, state, before, last, disk, events, watcher, chan, request>>

\* get_all_configs: center.read().await
RequestRead ==
    /\ request.pc = "idle"
    /\ ReadGranted(rwlock)
    /\ rwlock' = [rwlock EXCEPT !.readers = @ + 1]
    /\ request' = [IdleRequest(center) EXCEPT !.pc = "auth"]
    /\ UNCHANGED <<app, state, before, last, disk, center, events, watcher, chan, reloader, hist>>

\* get_all_configs: validate_request(&center, &headers, &project)?
RequestAuth ==
    /\ request.pc = "auth"
    /\ LET auth == validate_request(center, <<"key-1">>, "app")
       IN request' = [request EXCEPT !.pc = IF auth.kind = "Ok" THEN "resolve" ELSE "respond",
                                     !.auth = auth, !.auth_tree = center,
                                     !.configs = IF auth.kind = "Ok" THEN @ ELSE auth,
                                     !.configs_tree = center]
    /\ UNCHANGED <<app, state, before, last, disk, center, events, watcher, chan, reloader,
                   rwlock, hist>>

\* get_all_configs: center.get_merged_config(&project, &env)?
RequestResolve ==
    /\ request.pc = "resolve"
    /\ request' = [request EXCEPT !.pc = "respond",
                                  !.configs = ConfigCenter_get_merged_config(center, "app", "default"),
                                  !.configs_tree = center]
    /\ UNCHANGED <<app, state, before, last, disk, center, events, watcher, chan, reloader,
                   rwlock, hist>>

\* get_all_configs returns: the read guard is dropped
RequestRespond ==
    /\ request.pc = "respond"
    /\ rwlock' = [rwlock EXCEPT !.readers = @ - 1]
    /\ request' = [request EXCEPT !.pc = "idle"]
    /\ UNCHANGED <<app, state, before, last, disk, center, events, watcher, chan, reloader, hist>>

\* serve started on a directory holding one project with one environment
InitReload ==
    /\ state = empty_state
    /\ before = empty_state
    /\ last = [op |-> "load", args |-> Args(NoArg, NoArg, NoArg),
               result |-> Ok(NoArg), saves |-> <<>>]
    /\ disk = ServedDirectory(Yaml(Version(0)))
    /\ center \in Storage_load(disk)
    /\ PipelineIdle
    /\ app = NoApp

NextReload ==
    \/ WriteEnv
    \/ WriteMalformed
    \/ RemoveEnv
    \/ WriteOther
    \/ WatcherCallback
    \/ WatcherUnblock
    \/ ReloaderRecv
    \/ ReloaderTimer
    \/ ReloaderDrain
    \/ ReloaderLoad
    \/ ReloaderSwap
    \/ RequestRead
    \/ RequestAuth
    \/ RequestResolve
    \/ RequestRespond

SpecReload == InitReload /\ [][NextReload]_vars

\* the watcher thread, the reload task (its timer included) and a request
\* that holds the read lock keep running; edits and new requests come as they will
ReloadFairness ==
    /\ WF_vars(WatcherCallback)
    /\ WF_vars(WatcherUnblock)
    /\ WF_vars(ReloaderRecv)
    /\ WF_vars(ReloaderTimer)
    /\ WF_vars(ReloaderDrain)
    /\ WF_vars(ReloaderLoad)
    /\ WF_vars(ReloaderSwap)
    /\ WF_vars(RequestAuth)
    /\ WF_vars(RequestResolve)
    /\ WF_vars(RequestRespond)

FairSpecReload == SpecReload /\ ReloadFairness

(***************************************************************************)
(* Directory-mode reads of core/mod.rs under a process environment that    *)
(* changes between the calls                                               *)
(***************************************************************************)
\* ConfigCenter::get_merged_config_item
ConfigCenter_get_merged_config_item(tree, project, env, key, environ) ==
    LET merged == ConfigCenter_get_merged_config_in(tree, project, env, environ)
    IN IF merged.kind # "Ok" THEN merged
       ELSE IF key \in DOMAIN merged.value THEN Ok(merged.value[key])
            ELSE Err("ConfigItemNotFound", key)

\* char::to_uppercase and the replacements of to_env_key, on the letters used here
EnvKeyChar(c) ==
    CASE c = "a" -> "A"
      [] c = "b" -> "B"
      [] c = "p" -> "P"
      [] c = "." -> "_"
      [] c = "-" -> "_"
      [] OTHER -> c

\* to_env_key(key, prefix); prefix is <<>> for None and <<p>> for Some(p)
to_env_key(key, prefix) ==
    LET normalized == [i \in DOMAIN key |-> EnvKeyChar(key[i])]
    IN IF prefix = <<>> THEN normalized
       ELSE [i \in DOMAIN prefix[1] |-> EnvKeyChar(prefix[1][i])] \o <<"_">> \o normalized

\* ConfigCenter::get_env_vars: the maps the insert loop can build; of the keys
\* with one env key the one the merged map iterates last leaves its value
ConfigCenter_get_env_vars(tree, project, env, prefix, environ) ==
    LET merged == ConfigCenter_get_merged_config_in(tree, project, env, environ)
    IN IF merged.kind # "Ok" THEN {merged}
       ELSE LET names == {to_env_key(k, prefix) : k \in DOMAIN merged.value}
                from(n) == {k \in DOMAIN merged.value : to_env_key(k, prefix) = n}
            IN {Ok([n \in names |-> merged.value[pick[n]]]) :
                    pick \in {f \in [names -> DOMAIN merged.value] :
                                \A n \in names : f[n] \in from(n)}}

RECURSIVE json_text(_)
\* serde_json::to_string of a value (no character used here needs an escape)
json_text(value) ==
    LET RECURSIVE Joined(_, _)
        Joined(items, i) ==
            IF i > Len(items) THEN <<>>
            ELSE (IF i > 1 THEN <<",">> ELSE <<>>)
                   \o (IF value.json = "object"
                       THEN <<"\"">> \o items[i].key \o <<"\"", ":">> ELSE <<>>)
                   \o json_text([items[i] EXCEPT !.key = <<>>])
                   \o Joined(items, i + 1)
    IN CASE value.json = "string" -> <<"\"">> \o value.v \o <<"\"">>
         [] value.json = "scalar" -> <<ToString(value.n)>>
         [] value.json = "null"   -> <<"n", "u", "l", "l">>
         [] value.json = "array"  -> <<"[">> \o Joined(value.items, 1) \o <<"]">>
         [] value.json = "object" -> <<"{">> \o Joined(value.items, 1) \o <<"}">>

\* json_to_env_value: strings as they are, numbers printed, null empty, the
\* rest as JSON text
json_to_env_value(value) ==
    CASE value.json = "string" -> value.v
      [] value.json = "scalar" -> <<ToString(value.n)>>
      [] value.json = "null"   -> <<>>
      [] OTHER -> json_text(value)

\* needs_quoting (the backquote, which no value here holds, is left out)
needs_quoting(str) ==
    \/ str = <<>>
    \/ \E i \in DOMAIN str :
          str[i] \in {" ", "\"", "'", "$", "\\", "\n", "{", "}", "[", "]"}

\* s.replace('\\', "\\\\").replace('"', "\\\"")
RECURSIVE Escaped(_)
Escaped(str) ==
    IF str = <<>> THEN <<>>
    ELSE (IF Head(str) \in {"\\", "\""} THEN <<"\\", Head(str)>> ELSE <<Head(str)>>)
           \o Escaped(Tail(str))

\* one line of the export text
ExportLine(k, value) ==
    LET str == json_to_env_value(value)
    IN <<"e", "x", "p", "o", "r", "t", " ">> \o k \o <<"=">>
         \o (IF needs_quoting(str) THEN <<"\"">> \o Escaped(str) \o <<"\"">> ELSE str)

\* the byte of a character of an environment-variable name, and of "="
CharCode(c) ==
    CASE c = "=" -> 61
      [] c = "A" -> 65
      [] c = "B" -> 66
      [] c = "P" -> 80
      [] c = "_" -> 95
      [] OTHER -> 0

\* String's order on the lines of two different names: the order of name + "="
RECURSIVE NameBefore(_, _)
NameBefore(k1, k2) ==
    LET a == IF k1 = <<>> THEN "=" ELSE Head(k1)
        b == IF k2 = <<>> THEN "=" ELSE Head(k2)
    IN IF a # b THEN CharCode(a) < CharCode(b)
       ELSE k1 # <<>> /\ NameBefore(Tail(k1), Tail(k2))

\* lines.sort() and lines.join("\n")
RECURSIVE SortedJoined(_)
SortedJoined(env_vars) ==
    IF DOMAIN env_vars = {} THEN <<>>
    ELSE LET k == CHOOSE n \in DOMAIN env_vars :
                     \A m \in DOMAIN env_vars \ {n} : NameBefore(n, m)
             rest == [n \in DOMAIN env_vars \ {k} |-> env_vars[n]]
         IN ExportLine(k, env_vars[k])
              \o (IF DOMAIN rest = {} THEN <<>> ELSE <<"\n">> \o SortedJoined(rest))

\* ConfigCenter::get_env_export: the texts it can return
ConfigCenter_get_env_export(tree, project, env, prefix, environ) ==
    {IF env_vars.kind # "Ok" THEN env_vars ELSE Ok(SortedJoined(env_vars.value)) :
        env_vars \in ConfigCenter_get_env_vars(tree, project, env, prefix, environ)}

\* values of a YAML file: strings with and without a token, a number, a list
\* and a mapping holding a token
ReadValues ==
    {JString(<<"$", "{", "X", "}">>), JString(<<"a">>), JScalar(1),
     JArray(<<JString(<<"$", "{", "X", "}", "a">>), JScalar(1)>>),
     JObject(<<Member(<<"b">>, JString(<<"$", "{", "Y", "}">>))>>)}

ReadKeys == {<<"a">>, <<"a", ".", "b">>}

\* projects/app/default.yaml and shared/default.yaml; the keys a_b and a.b
\* have one environment-variable name
ReadDisks ==
    {Directory(TRUE,
               [p \in {"app"} |-> [meta |-> Yaml(<<"key-1">>),
                                   envs |-> [e \in {"default"} |-> Yaml(own)]]],
               [e \in {"default"} |-> file]) :
        own \in [{<<"a">>} -> ReadValues]
                   \cup {[k \in {<<"a", "_", "b">>} |-> JString(<<"a">>)]},
        file \in {NoFile} \cup {Yaml(items) : items \in [{<<"a", ".", "b">>} -> ReadValues]}}

\* the process environment at the time of a call
ReadEnvirons ==
    {<<>>, [n \in {<<"X">>} |-> <<"h", "i">>],
     [n \in {<<"X">>, <<"Y">>} |-> IF n = <<"X">> THEN <<"b">> ELSE <<"$", "{", "X", "}">>]}

ReadArgs(project, env, key, prefix, environ) ==
    [project |-> project, env |-> env, key |-> key, prefix |-> prefix, environ |-> environ]

InitRead ==
    /\ state = empty_state
    /\ before = empty_state
    /\ last = [op |-> "load", args |-> ReadArgs(NoArg, NoArg, <<>>, <<>>, <<>>),
               result |-> Ok(NoArg), saves |-> <<>>]
    /\ disk \in ReadDisks
    /\ center \in Storage_load(disk)
    /\ PipelineIdle
    /\ app = NoApp

\* a get_merged_config that stores the substituted values in the tree
ReadMergedConfigInPlace ==
    \E project \in {"app", "web"}, env \in {"default", "prod"}, environ \in ReadEnvirons :
       LET merged == ConfigCenter_get_merged_config_in(center, project, env, environ)
       IN /\ last' = [op |-> "get_merged_config",
                      args |-> ReadArgs(project, env, <<>>, <<>>, environ),
                      result |-> merged, saves |-> <<>>]
          /\ center' = IF merged.kind = "Ok"
                       THEN [center EXCEPT !.projects[project].environments[env] =
                                [k \in DOMAIN @ |-> merged.value[k]]]
                       ELSE center
          /\ UNCHANGED <<app, state, before, disk, events, watcher, chan, reloader, rwlock,
                         request, hist>>

\* center.get_merged_config(project, env) on &self
ReadMergedConfig ==
    \E project \in {"app", "web"}, env \in {"default", "prod"}, environ \in ReadEnvirons :
       /\ last' = [op |-> "get_merged_config",
                   args |-> ReadArgs(project, env, <<>>, <<>>, environ),
                   result |-> ConfigCenter_get_merged_config_in(center, project, env, environ),
                   saves |-> <<>>]
       /\ UNCHANGED <<app, state, before, dirVars>>

\* center.get_merged_config_item(project, env, key) on &self
ReadMergedConfigItem ==
    \E project \in {"app", "web"}, env \in {"default", "prod"}, key \in ReadKeys,
       environ \in ReadEnvirons :
       /\ last' = [op |-> "get_merged_config_item",
                   args |-> ReadArgs(project, env, key, <<>>, environ),
                   result |-> ConfigCenter_get_merged_config_item(center, project, env, key,
                                                                  environ),
                   saves |-> <<>>]
       /\ UNCHANGED <<app, state, before, dirVars>>

\* center.get_env_vars(project, env, prefix) on &self
ReadEnvVars ==
    \E project \in {"app", "web"}, env \in {"default", "prod"},
       prefix \in {<<>>, <<<<"p">>>>}, environ \in ReadEnvirons :
       \E env_vars \in ConfigCenter_get_env_vars(center, project, env, prefix, environ) :
          /\ last' = [op |-> "get_env_vars",
                      args |-> ReadArgs(project, env, <<>>, prefix, environ),
                      result |-> env_vars, saves |-> <<>>]
          /\ UNCHANGED <<app, state, before, dirVars>>

\* center.get_env_export(project, env, prefix) on &self
ReadEnvExport ==
    \E project \in {"app", "web"}, env \in {"default", "prod"},
       prefix \in {<<>>, <<<<"p">>>>}, environ \in ReadEnvirons :
       \E text \in ConfigCenter_get_env_export(center, project, env, prefix, environ) :
          /\ last' = [op |-> "get_env_export",
                      args |-> ReadArgs(project, env, <<>>, prefix, environ),
                      result |-> text, saves |-> <<>>]
          /\ UNCHANGED <<app, state, before, dirVars>>

NextRead == ReadMergedConfig \/ ReadMergedConfigItem \/ ReadEnvVars \/ ReadEnvExport

SpecRead == InitRead /\ [][NextRead]_vars

(***************************************************************************)
(* api/handlers.rs: the three handlers, as functions of the tree they read *)
(* and one await point at a time beside the reload task                    *)
(***************************************************************************)
\* the body of get_all_configs on one tree: the responses it can give
get_all_configs(tree, header, project, env) ==
    LET auth    == validate_request(tree, header, project)
        configs == ConfigCenter_get_merged_config(tree, project, env)
    IN IF auth.kind # "Ok" THEN {auth}
       ELSE IF configs.kind # "Ok" THEN {configs}
       ELSE {IF env_vars.kind # "Ok" THEN env_vars
             ELSE Ok([configs |-> configs.value, env_vars |-> env_vars.value]) :
                env_vars \in ConfigCenter_get_env_vars(tree, project, env, <<>>, ProcessEnv)}

\* the body of get_single_config on one tree
get_single_config(tree, header, project, env, key) ==
    LET auth == validate_request(tree, header, project)
    IN IF auth.kind # "Ok" THEN {auth}
       ELSE {ConfigCenter_get_merged_config_item(tree, project, env, key, ProcessEnv)}

\* the body of export_env on one tree
export_env(tree, header, project, env) ==
    LET auth == validate_request(tree, header, project)
    IN IF auth.kind # "Ok" THEN {auth}
       ELSE ConfigCenter_get_env_export(tree, project, env, <<>>, ProcessEnv)

\* the responses the handler of request req can give when all of it reads tree
Handle(tree, req) ==
    CASE req.handler = "get_all_configs" ->
            get_all_configs(tree, req.header, req.project, req.env)
      [] req.handler = "get_single_config" ->
            get_single_config(tree, req.header, req.project, req.env, req.key)
      [] req.handler = "export_env" ->
            export_env(tree, req.header, req.project, req.env)

\* edits of default.yaml while the handlers run
MaxSwaps == 2

\* the n-th content written to default.yaml
KeyedVersion(n) == [k \in {<<"a">>} |-> JScalar(n)]

\* default.yaml is written with new content
WriteKeyed ==
    /\ hist.edits < MaxSwaps
    /\ Edited(Yaml(KeyedVersion(hist.edits + 1)), "Modify", {"yaml"})

\* a handler that reads the tree without taking the read lock
HandlerReadUnlocked ==
    /\ request.pc = "idle"
    /\ \E handler \in {"get_all_configs", "get_single_config", "export_env"},
          header \in {<<>>, <<"key-1">>, <<"bad-key">>}, project \in {"app", "web"},
          env \in {"default", "prod"} :
          request' = [IdleRequest(center) EXCEPT
                         !.pc = "auth", !.handler = handler, !.header = header,
                         !.project = project, !.env = env,
                         !.key = IF handler = "get_single_config" THEN <<"a">> ELSE <<>>]
    /\ UNCHANGED <<app, state, before, last, disk, center, events, watcher, chan, reloader,
                   rwlock, hist>>

\* a request arrives: let center = center.read().await
HandlerRead ==
    /\ request.pc = "idle"
    /\ ReadGranted(rwlock)
    /\ rwlock' = [rwlock EXCEPT !.readers = @ + 1]
    /\ \E handler \in {"get_all_configs", "get_single_config", "export_env"},
          header \in {<<>>, <<"key-1">>, <<"bad-key">>}, project \in {"app", "web"},
          env \in {"default", "prod"} :
          request' = [IdleRequest(center) EXCEPT
                         !.pc = "auth", !.handler = handler, !.header = header,
                         !.project = project, !.env = env,
                         !.key = IF handler = "get_single_config" THEN <<"a">> ELSE <<>>]
    /\ UNCHANGED <<app, state, before, last, disk, center, events, watcher, chan, reloader, hist>>

\* validate_request(&center, &headers, &project)?
HandlerValidate ==
    /\ request.pc = "auth"
    /\ LET auth == validate_request(center, request.header, request.project)
       IN request' = [request EXCEPT
                         !.pc = IF auth.kind = "Ok" THEN "configs" ELSE "respond",
                         !.auth = auth, !.auth_tree = center,
                         !.response = IF auth.kind = "Ok" THEN @ ELSE auth]
    /\ UNCHANGED <<app, state, before, last, disk, center, events, watcher, chan, reloader,
                   rwlock, hist>>

\* the handler's read of the configuration: get_merged_config (and on to
\* get_env_vars), get_merged_config_item or get_env_export
HandlerConfigs ==
    /\ request.pc = "configs"
    /\ \E read \in
          CASE request.handler = "get_all_configs" ->
                  {ConfigCenter_get_merged_config(center, request.project, request.env)}
            [] request.handler = "get_single_config" ->
                  {ConfigCenter_get_merged_config_item(center, request.project, request.env,
                                                       request.key, ProcessEnv)}
            [] request.handler = "export_env" ->
                  ConfigCenter_get_env_export(center, request.project, request.env, <<>>,
                                              ProcessEnv) :
          request' = [request EXCEPT
                         !.pc = IF request.handler = "get_all_configs" /\ read.kind = "Ok"
                                THEN "env_vars" ELSE "respond",
                         !.configs = read, !.configs_tree = center,
                         !.response = IF request.handler = "get_all_configs" /\ read.kind = "Ok"
                                      THEN @ ELSE read]
    /\ UNCHANGED <<app, state, before, last, disk, center, events, watcher, chan, reloader,
                   rwlock, hist>>

\* get_all_configs: center.get_env_vars(&project, &env, prefix)?
HandlerEnvVars ==
    /\ request.pc = "env_vars"
    /\ \E env_vars \in ConfigCenter_get_env_vars(center, request.project, request.env, <<>>,
                                                 ProcessEnv) :
          request' = [request EXCEPT
                         !.pc = "respond",
                         !.env_vars = env_vars, !.env_vars_tree = center,
                         !.response = IF env_vars.kind # "Ok" THEN env_vars
                                      ELSE Ok([configs |-> request.configs.value,
                                               env_vars |-> env_vars.value])]
    /\ UNCHANGED <<app, state, before, last, disk, center, events, watcher, chan, reloader,
                   rwlock, hist>>

\* the handler returns: the read guard is dropped
HandlerRespond ==
    /\ request.pc = "respond"
    /\ rwlock' = [rwlock EXCEPT !.readers = @ - 1]
    /\ request' = [request EXCEPT !.pc = "idle"]
    /\ UNCHANGED <<app, state, before, last, disk, center, events, watcher, chan, reloader, hist>>

\* serve started on projects/app/{project.yaml, default.yaml}
InitRequest ==
    /\ state = empty_state
    /\ before = empty_state
    /\ last = [op |-> "load", args |-> Args(NoArg, NoArg, NoArg),
               result |-> Ok(NoArg), saves |-> <<>>]
    /\ disk = ServedDirectory(Yaml(KeyedVersion(0)))
    /\ center \in Storage_load(disk)
    /\ PipelineIdle
    /\ app = NoApp

NextRequest ==
    \/ WriteKeyed
    \/ WatcherCallback
    \/ WatcherUnblock
    \/ ReloaderRecv
    \/ ReloaderTimer
    \/ ReloaderDrain
    \/ ReloaderLoad
    \/ ReloaderSwap
    \/ HandlerRead
    \/ HandlerValidate
    \/ HandlerConfigs
    \/ HandlerEnvVars
    \/ HandlerRespond

SpecRequest == InitRequest /\ [][NextRequest]_vars

(***************************************************************************)
(* Directory mode at start: Storage::load(config_dir) over directories     *)
(* holding files it cannot use, then requests served from the loaded tree  *)
(***************************************************************************)
\* config directories: projects/app with project.yaml, default.yaml and
\* prod.yaml, projects/web with project.yaml and default.yaml, and
\* shared/default.yaml, each absent, unusable or a mapping; and no directory
LoadDisks ==
    {Directory(FALSE, <<>>, <<>>)} \cup
    {Directory(TRUE, dirs, [e \in {"default"} |-> file]) :
        dirs \in UNION
           {[P -> {[meta |-> NoFile, envs |-> <<>>]}] \cup
            {d \in [P -> [meta : {NoFile, Malformed, Yaml(<<"key-1">>)},
                           envs : [{"default", "prod"} ->
                                     {NoFile, Malformed, NotAMapping, Unreadable,
                                      Yaml([k \in {<<"a">>} |-> JScalar(1)])}]]] :
                \A p \in P :
                   /\ d[p].envs["prod"].kind \in {"absent", "unreadable", "yaml"}
                   /\ d[p].envs["default"].kind # "unreadable"
                   /\ p = "web" => /\ d[p].envs["prod"].kind = "absent"
                                   /\ d[p].envs["default"].kind \in {"malformed", "yaml"}
                                   /\ d[p].meta.kind # "malformed"} :
              P \in SUBSET {"app", "web"}},
        file \in {NoFile, Unreadable, Yaml([k \in {<<"a", ".", "b">>} |-> JScalar(2)])}}

InitDirLoad ==
    /\ state = empty_state
    /\ before = empty_state
    /\ last = [op |-> "start", args |-> ReadArgs(NoArg, NoArg, <<>>, <<>>, <<>>),
               result |-> Ok(NoArg), saves |-> <<>>]
    /\ disk \in LoadDisks
    /\ center = DirConfigState(<<>>, <<>>, <<>>)
    /\ PipelineIdle
    /\ app = NoApp

\* main: Storage::load(&config_dir) and ConfigCenter::new of its tree
DirStorageLoad ==
    /\ last.op = "start"
    /\ center' \in Storage_load(disk)
    /\ last' = [last EXCEPT !.op = "dir_load"]
    /\ UNCHANGED <<app, state, before, disk, events, watcher, chan, reloader, rwlock,
                   request, hist>>

\* a request read from the loaded tree
ServeMergedConfig ==
    /\ last.op # "start"
    /\ ReadMergedConfig

NextDirLoad == DirStorageLoad \/ ServeMergedConfig

SpecDirLoad == InitDirLoad /\ [][NextDirLoad]_vars

(***************************************************************************)
(* Snapshot mode with its file: Storage::load at start and restart, the    *)
(* operations of the Mutation Engine saving to the file, export and import *)
(***************************************************************************)
MaxStoreNodes == 2

\* trees a snapshot file may hold at start
StoreTrees ==
    {empty_state,
     ConfigState(<<Project("app", <<>>, <<Environment("default", <<>>)>>)>>, <<>>, <<>>),
     ConfigState(<<Project("web", <<"svc">>,
                           <<Environment("default", <<ConfigItem("db_host", "localhost")>>)>>)>>,
                 <<Environment("default", <<>>)>>,
                 <<ApiKey("uuid-1", "web")>>)}

\* JSON documents that are no ConfigState: no fields, an array, a field missing
IllFormedDocs ==
    {JObject(<<>>), JArray(<<>>),
     JObject(<<Member(<<"projects">>, JArray(<<>>)),
               Member(<<"shared_group">>, JObject(<<Member(<<"environments">>, JArray(<<>>))>>))>>)}

StoreFiles ==
    {NoSnapshot, UnreadableFile, GarbledFile}
        \cup {JsonFile(doc) : doc \in IllFormedDocs}
        \cup {JsonFile(to_json(tree)) : tree \in StoreTrees}

\* the process is about to call Storage::load(file_path)
InitStore ==
    /\ state = empty_state
    /\ before = empty_state
    /\ last = [op |-> "start", args |-> Args(NoArg, NoArg, NoArg),
               result |-> Ok(NoArg), saves |-> <<>>]
    /\ disk \in StoreFiles
    /\ center = DirConfigState(<<>>, <<>>, <<>>)
    /\ PipelineIdle
    /\ app = NoApp

\* Storage::load(file_path), at start and at every restart of the process
StorageLoad ==
    /\ LET loaded == FileStorage_load(disk)
       IN /\ last' = [op |-> "load", args |-> Args(NoArg, NoArg, NoArg),
                      result |-> IF loaded.kind = "Ok" THEN Ok(NoArg) ELSE loaded,
                      saves |-> <<>>]
          /\ state' = IF loaded.kind = "Ok" THEN loaded.value ELSE empty_state
    /\ before' = state
    /\ UNCHANGED <<app, dirVars>>

\* the operations of the Mutation Engine
EngineOps ==
    {"create_project", "delete_project", "create_environment", "delete_environment",
     "create_config_item", "update_config_item", "delete_config_item",
     "generate_api_key", "revoke_api_key",
     "create_shared_item", "update_shared_item", "delete_shared_item"}

\* the operation op of core/ called with the arguments a
EngineOp(op, st, a, s) ==
    CASE op = "create_project" -> create_project(st, a.project, a.description, s)
      [] op = "delete_project" -> delete_project(st, a.project, s)
      [] op = "create_environment" -> create_environment(st, a.project, a.env, s)
      [] op = "delete_environment" -> delete_environment(st, a.project, a.env, s)
      [] op = "create_config_item" ->
            create_config_item(st, a.project, a.env, a.key, a.value, s)
      [] op = "update_config_item" ->
            update_config_item(st, a.project, a.env, a.key, a.value, s)
      [] op = "delete_config_item" -> delete_config_item(st, a.project, a.env, a.key, s)
      [] op = "generate_api_key" -> generate_api_key(st, a.project, a.uuid, s)
      [] op = "revoke_api_key" -> revoke_api_key(st, a.uuid, s)
      [] op = "create_shared_item" -> create_shared_item(st, a.env, a.key, a.value, s)
      [] op = "update_shared_item" -> update_shared_item(st, a.env, a.key, a.value, s)
      [] op = "delete_shared_item" -> delete_shared_item(st, a.env, a.key, s)

\* the arguments op takes, the others left out: one project to create beside
\* the one a file may hold, one key, one value that differs from the file's
EngineArgs(op) ==
    LET on(ops, S) == IF op \in ops THEN S ELSE {NoArg}
    IN [project : on({"create_project", "delete_project", "create_environment",
                      "delete_environment", "create_config_item", "update_config_item",
                      "delete_config_item", "generate_api_key"}, {"app"}),
        description : IF op = "create_project" THEN {<<>>} \cup Descriptions ELSE {<<>>},
        env : on({"create_environment", "delete_environment", "create_config_item",
                  "update_config_item", "delete_config_item", "create_shared_item",
                  "update_shared_item", "delete_shared_item"}, {"default", "prod"}),
        key : on({"create_config_item", "update_config_item", "delete_config_item",
                  "create_shared_item", "update_shared_item", "delete_shared_item"},
                 {"db_host"}),
        value : on({"create_config_item", "update_config_item", "create_shared_item",
                    "update_shared_item"}, {"debug"}),
        uuid : on({"generate_api_key", "revoke_api_key"}, Uuids)]

\* an operation of the Mutation Engine, its save writing the snapshot file
EngineCall ==
    /\ last.op # "start"
    /\ \E op \in EngineOps :
         \E a \in EngineArgs(op), s \in SaveOutcomes :
            LET r == EngineOp(op, state, a, s)
            IN /\ Nodes(r.state) <= MaxStoreNodes \/ Nodes(r.state) <= Nodes(state)
               /\ op = "generate_api_key" => a.uuid \in FreshUuids(state, Uuids)
               /\ before' = state
               /\ state' = r.state
               /\ last' = [op |-> op,
                           args |-> Args(a.project, a.env,
                                         IF a.uuid # NoArg THEN a.uuid ELSE a.key),
                           result |-> r.result, saves |-> r.saves]
               /\ disk' \in FileAfter(disk, r)
               /\ UNCHANGED <<app, center, events, watcher, chan, reloader, rwlock, request, hist>>

\* bulk export: the tree as a document
Export ==
    /\ last.op # "start"
    /\ last' = [op |-> "export", args |-> Args(NoArg, NoArg, NoArg),
                result |-> Ok(to_json(state)), saves |-> <<>>]
    /\ before' = state
    /\ UNCHANGED <<app, state, dirVars>>

\* bulk import of the document just exported: the tree is replaced by the
\* parsed document and saved; a failed save restores the previous tree
Import ==
    /\ last.op = "export"
    /\ \E s \in SaveOutcomes :
         LET parsed == from_json(last.result.value)
             r == IF parsed.kind # "Ok" THEN Outcome(state, parsed, <<>>)
                  ELSE IF s # "Ok" THEN Outcome(state, SaveErr(s), <<s>>)
                       ELSE Outcome(parsed.value, Ok(last.result.value), <<s>>)
         IN /\ last' = [op |-> "import", args |-> Args(NoArg, NoArg, NoArg),
                        result |-> r.result, saves |-> r.saves]
            /\ before' = state
            /\ state' = r.state
            /\ disk' \in FileAfter(disk, r)
            /\ UNCHANGED <<app, center, events, watcher, chan, reloader, rwlock, request, hist>>

NextStore == StorageLoad \/ EngineCall \/ Export \/ Import

SpecStore == InitStore /\ [][NextStore]_vars

(***************************************************************************)
(* Reads of a stored tree: the tree is any the operations above can build  *)
(* out of one project, its environments and the shared group's.            *)
(***************************************************************************)
MaxResolveEnvs == 1

ItemLists ==
    UNION {{[i \in DOMAIN ks |-> ConfigItem(ks[i], vs[i])] :
                vs \in [DOMAIN ks -> Values]} :
           ks \in {q \in ArrangementsOf(Keys, Cardinality(Keys)) : NoRepeat(q)}}

EnvLists(n) ==
    UNION {{[i \in DOMAIN ns |-> Environment(ns[i], its[i])] :
                its \in [DOMAIN ns -> ItemLists]} :
           ns \in {q \in ArrangementsOf(EnvNames, n) : NoRepeat(q)}}

ResolveTrees ==
    {ConfigState(ps, sh, <<>>) :
        ps \in {<<>>} \cup {<<Project("app", <<>>, envs)>> :
                                envs \in EnvLists(MaxResolveEnvs)},
        sh \in EnvLists(1)}

InitResolve ==
    /\ state \in ResolveTrees
    /\ before = state
    /\ last = [op |-> "load", args |-> Args(NoArg, NoArg, NoArg),
               result |-> Ok(NoArg), saves |-> <<>>]
    /\ NoDeployment

NextResolve == GetMergedConfig \/ GetMergedConfigItem

SpecResolve == InitResolve /\ [][NextResolve]_vars

(***************************************************************************)
(* Vocabulary of the claims                                                *)
(***************************************************************************)
SaveFailed == last.saves # <<>> /\ last.saves[Len(last.saves)] # "Ok"

HasProject(st, name) == \E i \in DOMAIN st.projects : st.projects[i].name = name

\* the environments of the first project called name
EnvsOf(st, name) == st.projects[ProjectPos(st, name)].environments

HasEnv(envs, name) == \E i \in DOMAIN envs : envs[i].name = name

ItemsOf(envs, name) == envs[EnvPos(envs, name)].config_items

HasItem(items, key) == \E i \in DOMAIN items : items[i].key = key

Distinct(seq, F(_)) ==
    \A i, j \in DOMAIN seq : F(seq[i]) = F(seq[j]) => i = j

NameOf(x) == x.name

\* the Result r is the error e
IsErr(r, e) == r.kind = e.kind /\ r.value = e.value

KeyOf(x) == x.key

\* C1: when the save of a Mutation Engine operation fails, the tree the
\* operation leaves equals the tree it was called with (same projects,
\* environments, items and API keys in the same order) and the operation
\* returns the save's error.
C1_RollbackOnSaveFailure ==
    (last.op \in EngineOps /\ SaveFailed)
        => /\ state = before
           /\ IsErr(last.result, SaveErr(last.saves[1]))

\* the save failed in delete_environment of an environment that was not the
\* last one of its project
C1_Witness ==
    /\ last.op = "delete_environment"
    /\ SaveFailed
    /\ Len(EnvsOf(before, last.args.project)) = 2
    /\ EnvsOf(before, last.args.project)[1].name = last.args.env

NoError == [kind |-> "none", value |-> NoArg]

\* The error validation must return for (op, args) on tree st, NoError when the
\* call passes validation: parents first, then the target or the duplicate.
ProjectEnvError(st, a) ==
    IF ~ HasProject(st, a.project) THEN Err("ProjectNotFound", a.project)
    ELSE IF ~ HasEnv(EnvsOf(st, a.project), a.env)
    THEN Err("EnvironmentNotFound", a.env)
    ELSE NoError

ExpectedError(st, op, a) ==
    CASE op = "create_project" ->
            IF HasProject(st, a.project)
            THEN Err("ProjectAlreadyExists", a.project) ELSE NoError
      [] op \in {"delete_project", "generate_api_key"} ->
            IF ~ HasProject(st, a.project)
            THEN Err("ProjectNotFound", a.project) ELSE NoError
      [] op = "create_environment" ->
            IF ~ HasProject(st, a.project) THEN Err("ProjectNotFound", a.project)
            ELSE IF HasEnv(EnvsOf(st, a.project), a.env)
            THEN Err("EnvironmentAlreadyExists", a.env) ELSE NoError
      [] op = "delete_environment" -> ProjectEnvError(st, a)
      [] op = "create_config_item" ->
            IF ProjectEnvError(st, a) # NoError THEN ProjectEnvError(st, a)
            ELSE IF HasItem(ItemsOf(EnvsOf(st, a.project), a.env), a.key)
            THEN Err("ConfigItemAlreadyExists", a.key) ELSE NoError
      [] op \in {"update_config_item", "delete_config_item"} ->
            IF ProjectEnvError(st, a) # NoError THEN ProjectEnvError(st, a)
            ELSE IF ~ HasItem(ItemsOf(EnvsOf(st, a.project), a.env), a.key)
            THEN Err("ConfigItemNotFound", a.key) ELSE NoError
      [] op = "create_shared_item" ->
            IF ~ HasEnv(SharedEnvs(st), a.env) THEN Err("EnvironmentNotFound", a.env)
            ELSE IF HasItem(ItemsOf(SharedEnvs(st), a.env), a.key)
            THEN Err("ConfigItemAlreadyExists", a.key) ELSE NoError
      [] op \in {"update_shared_item", "delete_shared_item"} ->
            IF ~ HasEnv(SharedEnvs(st), a.env) THEN Err("EnvironmentNotFound", a.env)
            ELSE IF ~ HasItem(ItemsOf(SharedEnvs(st), a.env), a.key)
            THEN Err("ConfigItemNotFound", a.key) ELSE NoError
      [] op = "revoke_api_key" ->
            IF \A i \in DOMAIN st.api_keys : st.api_keys[i].key # a.key
            THEN Err("ApiKeyNotFound", a.key) ELSE NoError
      [] OTHER -> NoError

\* C2: an operation that fails validation (missing parent project or
\* environment, missing target of an update or delete, duplicate name or key of
\* a create) returns its typed NotFound / AlreadyExists error, leaves the tree
\* unchanged and does not call save.
C2_ValidationFailureChangesNothing ==
    (last.op \in EngineOps /\ ExpectedError(before, last.op, last.args) # NoError)
        => /\ IsErr(last.result, ExpectedError(before, last.op, last.args))
           /\ state = before
           /\ last.saves = <<>>

\* a create of an existing key was refused while the tree held that item
C2_Witness ==
    /\ last.op = "create_shared_item"
    /\ IsErr(last.result, Err("ConfigItemAlreadyExists", last.args.key))
    /\ Len(ItemsOf(SharedEnvs(state), last.args.env)) = 2

\* C3: no two projects of the tree have the same name.
C3_ProjectNamesUnique == Distinct(state.projects, NameOf)

\* two projects exist and the creation of a third with a taken name was refused
C3_Witness ==
    /\ Len(state.projects) = 2
    /\ last.op = "create_project"
    /\ last.result.kind = "ProjectAlreadyExists"

\* C4: no project holds two environments with the same name, and neither does
\* the shared group.
C4_EnvironmentNamesUnique ==
    /\ \A i \in DOMAIN state.projects : Distinct(state.projects[i].environments, NameOf)
    /\ Distinct(SharedEnvs(state), NameOf)

\* the shared group holds two environments and the TUI asked again for one of them
C4_Witness ==
    /\ Len(SharedEnvs(state)) = 2
    /\ last.op = "confirm_create_shared"
    /\ HasEnv(SharedEnvs(before), last.args.env)

\* C5: no environment, of a project or of the shared group, holds two config
\* items with the same key.
C5_ItemKeysUnique ==
    /\ \A i \in DOMAIN state.projects :
          \A j \in DOMAIN state.projects[i].environments :
              Distinct(state.projects[i].environments[j].config_items, KeyOf)
    /\ \A j \in DOMAIN SharedEnvs(state) :
          Distinct(SharedEnvs(state)[j].config_items, KeyOf)

\* an environment holds two items and a create of one of their keys was tried
C5_Witness ==
    /\ last.op \in {"create_shared_item", "create_config_item"}
    /\ last.result.kind = "ConfigItemAlreadyExists"
    /\ \E j \in DOMAIN SharedEnvs(state) : Len(SharedEnvs(state)[j].config_items) = 2

\* C6: every API key of the tree names a project that exists.
C6_ApiKeysNameProjects ==
    \A i \in DOMAIN state.api_keys : HasProject(state, state.api_keys[i].project)

\* delete_project removed a project that had a key bound to it
C6_Witness ==
    /\ last.op = "delete_project"
    /\ last.result.kind = "Ok"
    /\ \E i \in DOMAIN before.api_keys : before.api_keys[i].project = last.args.project

\* C7: right after a successful create_project(name) the project has exactly
\* one environment, named "default", with no config item.
C7_NewProjectHasEmptyDefault ==
    (last.op = "create_project" /\ last.result.kind = "Ok")
        => /\ HasProject(state, last.args.project)
           /\ EnvsOf(state, last.args.project) = <<Environment("default", <<>>)>>
           /\ last.result.value.environments = <<Environment("default", <<>>)>>

\* a project was created beside an existing one
C7_Witness ==
    /\ last.op = "create_project"
    /\ last.result.kind = "Ok"
    /\ Len(state.projects) = 2

\* C8: a successful delete_project(p) removes p with all its environments and
\* items and every API key bound to p; the other projects, the shared group
\* and the keys of other projects stay as they were, in the same order.
C8_DeleteProjectCascade ==
    (last.op = "delete_project" /\ last.result.kind = "Ok")
        => /\ ~ HasProject(state, last.args.project)
           /\ state.projects =
                  RemoveAt(before.projects, ProjectPos(before, last.args.project))
           /\ state.shared_group = before.shared_group
           /\ state.api_keys =
                  SelectSeq(before.api_keys, LAMBDA k : k.project # last.args.project)

\* the deleted project came first of two and held two keys, with a key of the
\* other project after them
C8_Witness ==
    /\ last.op = "delete_project"
    /\ last.result.kind = "Ok"
    /\ Len(before.projects) = 2
    /\ before.projects[1].name = last.args.project
    /\ Len(before.api_keys) = 3
    /\ before.api_keys[1].project = last.args.project
    /\ before.api_keys[2].project = last.args.project
    /\ before.api_keys[3].project # last.args.project
    /\ Len(state.api_keys) = 1

ItemKeys(items) == {items[i].key : i \in DOMAIN items}

\* the items of the shared group's environment env, none when it has no such
SharedItemsOf(st, env) ==
    IF HasEnv(SharedEnvs(st), env) THEN ItemsOf(SharedEnvs(st), env) ELSE <<>>

Resolvable(st, a) == HasProject(st, a.project) /\ HasEnv(EnvsOf(st, a.project), a.env)

\* C9: for a project p and an environment e of p, resolve(p, e) returns a map
\* whose keys are those of p's e and of the shared group's e (none, and no
\* error, when the shared group has no e); a key of the project environment
\* maps to the project's value, a key of the shared environment alone to the
\* shared value.
C9_MergeProjectOverShared ==
    (last.op = "get_merged_config" /\ Resolvable(state, last.args))
        => /\ last.result.kind = "Ok"
           /\ LET own    == ItemsOf(EnvsOf(state, last.args.project), last.args.env)
                  shared == SharedItemsOf(state, last.args.env)
                  merged == last.result.value
              IN /\ DOMAIN merged = ItemKeys(own) \cup ItemKeys(shared)
                 /\ \A i \in DOMAIN own : merged[own[i].key] = own[i].value
                 /\ \A i \in DOMAIN shared :
                        shared[i].key \notin ItemKeys(own)
                            => merged[shared[i].key] = shared[i].value

\* resolve merged a key both tiers hold with different values and a key only
\* the shared tier holds
C9_Witness ==
    /\ last.op = "get_merged_config"
    /\ Resolvable(state, last.args)
    /\ LET own    == ItemsOf(EnvsOf(state, last.args.project), last.args.env)
           shared == SharedItemsOf(state, last.args.env)
       IN /\ \E i \in DOMAIN own, j \in DOMAIN shared :
                own[i].key = shared[j].key /\ own[i].value # shared[j].value
          /\ \E j \in DOMAIN shared : shared[j].key \notin ItemKeys(own)
          /\ Cardinality(DOMAIN last.result.value) = 2

\* C10: resolve(p, e) fails with ProjectNotFound when p does not exist and with
\* EnvironmentNotFound when p exists without an environment e, also when the
\* shared group has an environment e; it returns no shared value then.
C10_ResolveChecksTheProject ==
    last.op = "get_merged_config"
        => /\ ~ HasProject(state, last.args.project)
                => IsErr(last.result, Err("ProjectNotFound", last.args.project))
           /\ (HasProject(state, last.args.project) /\ ~ Resolvable(state, last.args))
                => IsErr(last.result, Err("EnvironmentNotFound", last.args.env))

\* resolve was refused for an environment the project lacks and the shared
\* group holds with an item
C10_Witness ==
    /\ last.op = "get_merged_config"
    /\ HasProject(state, last.args.project)
    /\ ~ HasEnv(EnvsOf(state, last.args.project), last.args.env)
    /\ SharedItemsOf(state, last.args.env) # <<>>
    /\ last.result.kind = "EnvironmentNotFound"

\* C11: resolve_item(p, e, k) returns Ok(v) exactly when resolve(p, e) is Ok(m)
\* and m holds k with value v, ConfigItemNotFound when resolve(p, e) is Ok and
\* the merged map has no k, and resolve's own error when resolve fails.
C11_ResolveItemFollowsResolve ==
    last.op = "get_merged_config_item"
        => LET m == get_merged_config(state, last.args.project, last.args.env)
           IN IF m.kind # "Ok" THEN IsErr(last.result, m)
              ELSE IF last.args.key \in DOMAIN m.value
                   THEN /\ last.result.kind = "Ok"
                        /\ last.result.value = m.value[last.args.key]
                   ELSE IsErr(last.result, Err("ConfigItemNotFound", last.args.key))

\* resolve_item returned the shared value of a key the project environment,
\* which holds another key, does not have
C11_Witness ==
    /\ last.op = "get_merged_config_item"
    /\ last.result.kind = "Ok"
    /\ Resolvable(state, last.args)
    /\ ItemsOf(EnvsOf(state, last.args.project), last.args.env) # <<>>
    /\ last.args.key \notin
          ItemKeys(ItemsOf(EnvsOf(state, last.args.project), last.args.env))

\* the projects a stored key belongs to: those whose project.yaml lists it
\* (validate_request), those an ApiKey record binds it to (auth_middleware)
KeyOwners(op, key) ==
    IF op = "validate_request"
    THEN {p \in DOMAIN center.projects :
            \E i \in DOMAIN center.projects[p].meta.api_keys :
                center.projects[p].meta.api_keys[i] = key}
    ELSE {state.api_keys[i].project :
            i \in {j \in DOMAIN state.api_keys : state.api_keys[j].key = key}}

\* C12: a request without API key, or with a key that is not stored, is
\* rejected as Unauthorized; a request with a stored key of another project is
\* rejected as Forbidden, never Unauthorized; a request is let through only
\* with a stored key of the addressed project.
C12_UnauthorizedOrForbidden ==
    (last.op \in {"validate_request", "auth_middleware"} /\ last.args.project # NoArg)
        => LET owners == KeyOwners(last.op, last.args.key)
               given  == last.args.key # NoArg
           IN /\ last.result.kind \in {"Ok", "Unauthorized", "Forbidden"}
              /\ (~ given \/ owners = {}) => last.result.kind = "Unauthorized"
              /\ (given /\ owners # {} /\ last.args.project \notin owners)
                    => last.result.kind = "Forbidden"
              /\ last.result.kind = "Ok" => (given /\ last.args.project \in owners)
              /\ (given /\ owners = {last.args.project}) => last.result.kind = "Ok"

\* a key stored for one project was presented for another, which exists
C12_Witness ==
    /\ last.op = "validate_request"
    /\ last.result.kind = "Forbidden"
    /\ last.args.project \in DOMAIN center.projects
    /\ KeyOwners(last.op, last.args.key) # {}

Accepted(Check(_, _)) ==
    [k \in DirKeys \cup Uuids \cup {"bad-key"} |->
        {p \in ProjectNames : Check(<<k>>, p).kind = "Ok"}]

\* C13: an API key authorizes one project: in a tree loaded from a directory
\* or built by mutations, the requests carrying a key k are accepted for at
\* most one project, the project validate_api_key(k) returns.
C13_KeyAuthorizesOneProject ==
    /\ LET ok == Accepted(LAMBDA h, p : validate_request(center, h, p))
       IN \A k \in DOMAIN ok :
            /\ Cardinality(ok[k]) <= 1
            /\ ok[k] \subseteq KeyOwners("validate_request", k)
            /\ ConfigCenter_validate_api_key(center, k).kind = "Ok"
                 => ok[k] = {ConfigCenter_validate_api_key(center, k).value.project}
    /\ LET ok == Accepted(LAMBDA h, p : auth_middleware(state, h, <<p>>))
       IN \A k \in DOMAIN ok :
            /\ Cardinality(ok[k]) <= 1
            /\ ok[k] \subseteq KeyOwners("auth_middleware", k)
            /\ validate_api_key(state, k).kind = "Ok"
                 => ok[k] = {validate_api_key(state, k).value.project}

\* a request was accepted with a key that two projects' project.yaml list
C13_Witness ==
    /\ last.op = "validate_request"
    /\ last.result.kind = "Ok"
    /\ Cardinality(KeyOwners(last.op, last.args.key)) = 2

\* the position of the first "}" of str, 0 if none
ClosingBrace(str) == First({i \in DOMAIN str : str[i] = "}"})

StartsToken(str) ==
    /\ Len(str) >= 2
    /\ str[1] = "$"
    /\ str[2] = "{"
    /\ ClosingBrace(str) # 0

\* str read from the left: a token ${NAME} (NAME up to the first "}") becomes
\* the value of NAME if set and stays as it is if not, any other character stays
RECURSIVE Substituted(_, _)
Substituted(str, environ) ==
    IF str = <<>> THEN <<>>
    ELSE IF StartsToken(str)
         THEN LET end  == ClosingBrace(str)
                  name == SubSeq(str, 3, end - 1)
              IN (IF name \in DOMAIN environ THEN environ[name] ELSE SubSeq(str, 1, end))
                    \o Substituted(SubSeq(str, end + 1, Len(str)), environ)
         ELSE <<Head(str)>> \o Substituted(Tail(str), environ)

\* C20: in a string every ${NAME} token of a set variable is replaced by the
\* variable's value and every token of an unset variable is left as it is,
\* also when the string holds several tokens, adjacent or apart; the text
\* outside the tokens is unchanged.
C20_SubstitutesEveryToken ==
    last.op = "substitute_env_in_string"
        => last.result.value = Substituted(last.args.str, last.args.environ)

\* ${X}${Y} followed by a character, X set and Y not: both rewritten as claimed
C20_Witness ==
    /\ last.op = "substitute_env_in_string"
    /\ last.args.str = <<"$", "{", "X", "}", "$", "{", "Y", "}", "a">>
    /\ last.args.environ = [n \in {<<"X">>} |-> <<"h", "i">>]
    /\ last.result.value = <<"h", "i", "$", "{", "Y", "}", "a">>

\* C14: a request that runs while a reload is swapping the tree reads one whole
\* tree: its API-key check and its resolve are answered by the same tree, and
\* the configs it returns are that tree's.
C14_RequestSeesOneTree ==
    request.pc = "respond" /\ request.auth.kind = "Ok"
        => /\ request.auth_tree = request.configs_tree
           /\ request.configs =
                  ConfigCenter_get_merged_config(request.auth_tree, "app", "default")

\* a request answered while the reload task waits to swap in a different tree
C14_Witness ==
    /\ request.pc = "respond"
    /\ request.auth.kind = "Ok"
    /\ request.configs.kind = "Ok"
    /\ reloader.pc = "swap"
    /\ reloader.new_center # center

\* default.yaml holds the n-th content written
OnDisk(n) == EnvFile(disk) = Yaml(Version(n))

\* resolve answers with the n-th content written
Serves(n) ==
    LET merged == ConfigCenter_get_merged_config(center, "app", "default")
    IN merged.kind = "Ok" /\ merged.value = Version(n)

\* C15: with the watcher running, after a create or modify of a yaml file a
\* reload whose scan started after that change is eventually swapped in (the
\* tasks being scheduled fairly and readers releasing the lock), and from then
\* on resolve returns the value on disk, as long as that value stays on disk.
C15_ChangeEventuallyServed ==
    /\ \A v \in 1..MaxEdits : (hist.last_yaml = v) ~> (hist.served_at >= v)
    /\ \A n \in 1..MaxEdits : OnDisk(n) ~> (~ OnDisk(n) \/ Serves(n))
    /\ [](hist.served_at = hist.edits => center \in Storage_load(disk))

\* a request answered with the content of the latest edit, which a reload swapped in
C15_Witness ==
    /\ hist.last_yaml >= 1
    /\ hist.served_at >= hist.last_yaml
    /\ OnDisk(hist.last_yaml)
    /\ Serves(hist.last_yaml)
    /\ request.pc = "respond"
    /\ request.configs.kind = "Ok"
    /\ request.configs.value = Version(hist.last_yaml)

Resolves(tree, project, env) == ConfigCenter_get_merged_config(tree, project, env).kind = "Ok"

\* C16: a reload that finds a malformed file does not take a served
\* environment away: a (project, environment) that resolved before the reload
\* still resolves after it.
C16_MalformedEditKeepsResolving ==
    [][(/\ reloader.pc = "swap"
        /\ reloader'.pc = "recv"
        /\ EnvFile(reloader.scanned).kind = "malformed"
        /\ Resolves(center, "app", "default"))
          => Resolves(center', "app", "default")]_vars

\* C17: the notifications raised from the first trigger to the end of the
\* quiet period lead to one reload: none of them, raised while the reload task
\* slept, is the trigger of a further cycle after the burst.
C17_BurstLeadsToOneReload ==
    Phase(reloader.pc) # "Idle" => reloader.trigger.raised_in # "sleep"

\* notifications the callback raised and the reload task has not yet taken
InFlight == Len(chan) + (IF watcher.pc = "sending" THEN 1 ELSE 0)

CreateOrModifyOfYaml(msg) ==
    /\ msg.kind = "Create" \/ msg.kind = "Modify"
    /\ "yaml" \in msg.exts \/ "yml" \in msg.exts

\* C19: the pipeline leaves Idle only for a create or modify event that names
\* a yaml or yml path; events of other kinds (a removal) or on other
\* extensions start no reload and leave the served tree as it is.
C19_OnlyYamlCreateOrModifyTriggers ==
    /\ Phase(reloader.pc) # "Idle" => CreateOrModifyOfYaml(reloader.trigger)
    /\ \A i \in DOMAIN chan : CreateOrModifyOfYaml(chan[i])
    /\ watcher.pc = "sending" => CreateOrModifyOfYaml(watcher.msg)
    /\ hist.cycles <= hist.qualifying
    /\ hist.qualifying = 0
          => /\ reloader.pc = "recv"
             /\ center \in Storage_load(ServedDirectory(Yaml(Version(0))))

\* a removal and a write of a .txt file have passed without a reload; the
\* creation of default.yaml that followed has started one
C19_Witness ==
    /\ hist.edits = 3
    /\ hist.qualifying = 1
    /\ hist.cycles = 1
    /\ events = <<>>
    /\ reloader.pc = "sleep"
    /\ reloader.trigger.kind = "Create"
    /\ reloader.trigger.at = 3

\* the text the loop has not yet scanned
Unscanned(loop) == SubSeq(loop.result, loop.search_from, Len(loop.result))

\* the text the loop has left behind
Scanned(loop) == SubSeq(loop.result, 1, loop.search_from - 1)

\* C21: after a replacement the scan resumes right after the inserted text:
\* the inserted value is never scanned for tokens, the tokens that follow are
\* found at their shifted positions, and the loop ends for every input, an
\* unterminated ${ and a value holding its own token included.
C21_ScanResumesAfterInsertedText ==
    /\ [][last'.op = "substitute_loop"
            => /\ Len(Unscanned(last'.result.value)) < Len(Unscanned(last.result.value))
               /\ Scanned(last.result.value)
                     = SubSeq(last'.result.value.result, 1, last.result.value.search_from - 1)
               /\ \E k \in 1..(Len(last.result.value.result) + 1) :
                     Unscanned(last'.result.value)
                        = SubSeq(last.result.value.result, k, Len(last.result.value.result))]_vars
    /\ [](last.op = "substitute_returned"
            => /\ last.result.value.result
                     = Substituted(last.args.str, last.args.environ)
               /\ last.result.value.result
                     = substitute_env_in_string(last.args.str, last.args.environ))

\* ${X}${Y}${X with X set to the token of Y and Y set: the inserted ${Y} stays,
\* the ${Y} behind it is replaced, the unterminated ${X ends the loop
C21_Witness ==
    /\ last.op = "substitute_returned"
    /\ last.args.str = <<"$", "{", "X", "}", "$", "{", "Y", "}", "$", "{", "X">>
    /\ <<"X">> \in DOMAIN last.args.environ
    /\ <<"Y">> \in DOMAIN last.args.environ
    /\ last.result.value.result = <<"$", "{", "Y", "}", "h", "i", "$", "{", "X">>

\* what the files of dir hold for (app, default), the project's file over the
\* shared one, with the tokens replaced from environ
FilesResolved(dir, environ) ==
    LET own    == dir.projects["app"].envs["default"].content
        shared == IF dir.shared["default"].kind = "yaml"
                  THEN dir.shared["default"].content ELSE <<>>
    IN [k \in DOMAIN own \cup DOMAIN shared |->
           resolve_env_vars(IF k \in DOMAIN own THEN own[k] ELSE shared[k], environ)]

\* C22: substitution touches only the value a read returns: after any number
\* of get_merged_config, get_merged_config_item and get_env_vars calls the
\* stored tree is the loaded one, placeholders included, and a read under
\* another process environment substitutes that environment's values.
C22_ReadsLeaveStoredTree ==
    /\ center \in Storage_load(disk)
    /\ (last.op = "get_merged_config" /\ last.args.project = "app"
            /\ last.args.env = "default")
          => /\ last.result.kind = "Ok"
             /\ last.result.value = FilesResolved(disk, last.args.environ)

\* a read under an environment that sets X to b returns b for the stored ${X}
\* while the tree still holds ${X}
C22_Witness ==
    /\ last.op = "get_merged_config"
    /\ last.result.kind = "Ok"
    /\ <<"Y">> \in DOMAIN last.args.environ
    /\ last.result.value[<<"a">>] = JString(<<"b">>)
    /\ center.projects["app"].environments["default"][<<"a">>]
          = JString(<<"$", "{", "X", "}">>)

\* C23: snapshot-mode load never fails: for an absent or unreadable file and
\* for content that does not parse as a tree the store's tree is empty,
\* otherwise it is the tree the file holds.
C23_SnapshotLoadNeverFails ==
    last.op = "load"
        => /\ last.result.kind = "Ok"
           /\ (\/ disk \in {NoSnapshot, UnreadableFile, GarbledFile}
               \/ disk.doc \in IllFormedDocs) => state = empty_state
           /\ \A tree \in StoreTrees : disk = JsonFile(to_json(tree)) => state = tree
           /\ (disk.kind = "json" /\ disk.doc \notin IllFormedDocs)
                 => disk.doc = to_json(state)

\* a load of a document that lacks api_keys has returned the empty tree
C23_Witness ==
    /\ last.op = "load"
    /\ disk.kind = "json"
    /\ Field(disk.doc, "projects") # <<>>
    /\ Field(disk.doc, "api_keys") = <<>>
    /\ state = empty_state
    /\ last.result.kind = "Ok"

\* a load of a file that holds a project, an item and a key has returned them
C23_WitnessParsed ==
    /\ last.op = "load"
    /\ Len(state.projects) = 1
    /\ Len(state.api_keys) = 1

\* C25: with the Mutation Engine as the only mutator, after every completed
\* operation (successful, rejected, or rolled back after a failed save) the
\* in-memory tree is the tree a fresh load of the snapshot file returns.
C25_TreeIsWhatAFreshLoadReturns ==
    last.op \in EngineOps => FileStorage_load(disk) = Ok(state)

\* C26: for every tree reachable by mutations, exporting it, importing the
\* document into a fresh tree and exporting again gives the first document.
C26_ExportImportExport ==
    (last.op = "import" /\ last.result.kind = "Ok")
        => /\ to_json(state) = last.result.value
           /\ state = before

\* a tree with a project that has no description has gone through export and
\* import, and the import has saved it
C26_Witness ==
    /\ last.op = "import"
    /\ last.result.kind = "Ok"
    /\ last.saves = <<"Ok">>
    /\ \E i \in DOMAIN state.projects :
          /\ state.projects[i].name = "app"
          /\ state.projects[i].description = <<>>
    /\ disk = JsonFile(last.result.value)

\* the directory with every file load cannot use taken away: env and shared
\* files that are no readable mapping, and a project.yaml that does not parse
UsableFiles(files) == [e \in {x \in DOMAIN files : files[x].kind = "yaml"} |-> files[e]]

WithoutBadFiles(dir) ==
    Directory(dir.exists,
              [p \in DOMAIN dir.projects |->
                  [meta |-> IF dir.projects[p].meta.kind = "yaml"
                            THEN dir.projects[p].meta ELSE NoFile,
                   envs |-> UsableFiles(dir.projects[p].envs)]],
              UsableFiles(dir.shared))

HasBadFile(dir) == dir.exists /\ WithoutBadFiles(dir) # dir

\* C24: a directory-mode load never fails; a root directory that does not
\* exist gives the empty tree, and a file that cannot be read or parsed, or
\* whose top level is no mapping, contributes nothing: the tree loaded is a
\* tree the load of the same directory without the bad files gives, so every
\* other project, environment and shared file is loaded
C24_DirectoryLoadNeverFails ==
    last.op = "dir_load" =>
        /\ last.result.kind = "Ok"
        /\ center \in Storage_load(WithoutBadFiles(disk))
        /\ ~ disk.exists => center = DirConfigState(<<>>, <<>>, <<>>)

\* a directory with an unparseable default.yaml of project app beside a good
\* prod.yaml, a good project web and a good shared file has been loaded: the
\* bad file gave no environment and the others are in the tree
C24_Witness ==
    /\ last.op = "dir_load"
    /\ disk.exists
    /\ DOMAIN disk.projects = {"app", "web"}
    /\ \A p \in {"app", "web"} : DOMAIN disk.projects[p].envs = {"default", "prod"}
    /\ disk.projects["app"].envs["default"] = Malformed
    /\ disk.projects["app"].envs["prod"].kind = "yaml"
    /\ disk.projects["web"].envs["default"].kind = "yaml"
    /\ disk.shared["default"].kind = "yaml"
    /\ DOMAIN center.projects["app"].environments = {"prod"}
    /\ DOMAIN center.projects["web"].environments = {"default"}
    /\ DOMAIN center.shared = {"default"}

\* a root directory that does not exist has been loaded
C24_WitnessNoRoot == last.op = "dir_load" /\ ~ disk.exists

\* the items of the environment an item operation addresses: the project's
\* environment for the config item operations, the shared group's for the
\* shared item operations
AddressedEnvs(st, op, a) ==
    IF op \in {"create_shared_item", "update_shared_item"} THEN SharedEnvs(st)
    ELSE IF HasProject(st, a.project) THEN EnvsOf(st, a.project) ELSE <<>>

AddressedItems(st, op, a) ==
    IF HasEnv(AddressedEnvs(st, op, a), a.env)
    THEN ItemsOf(AddressedEnvs(st, op, a), a.env) ELSE <<>>

\* C27: for config items and shared items, update never creates and create
\* never overwrites: an update of a key its environment does not hold fails
\* with ConfigItemNotFound, no update changes the keys the tree holds, a create
\* of a key its environment holds fails with ConfigItemAlreadyExists and
\* leaves the value, and a successful create leaves the items that were there
C27_UpdateNeverCreatesCreateNeverOverwrites ==
    LET wasThere == AddressedItems(before, last.op, last.args)
        isThere  == AddressedItems(state, last.op, last.args)
        envThere == HasEnv(AddressedEnvs(before, last.op, last.args), last.args.env)
    IN /\ last.op \in {"update_config_item", "update_shared_item"} =>
             /\ (envThere /\ ~ HasItem(wasThere, last.args.key)) =>
                    /\ IsErr(last.result, Err("ConfigItemNotFound", last.args.key))
                    /\ state = before
             /\ [i \in DOMAIN isThere |-> isThere[i].key]
                    = [i \in DOMAIN wasThere |-> wasThere[i].key]
             /\ Nodes(state) = Nodes(before)
       /\ last.op \in {"create_config_item", "create_shared_item"} =>
             /\ HasItem(wasThere, last.args.key) =>
                    /\ IsErr(last.result, Err("ConfigItemAlreadyExists", last.args.key))
                    /\ state = before
             /\ Len(isThere) >= Len(wasThere)
             /\ SubSeq(isThere, 1, Len(wasThere)) = wasThere

\* an update of a key the shared environment does not hold was refused while
\* the environment held another key
C27_Witness ==
    /\ last.op = "update_shared_item"
    /\ IsErr(last.result, Err("ConfigItemNotFound", last.args.key))
    /\ Len(ItemsOf(SharedEnvs(state), last.args.env)) = 1

\* a create of a key the project's environment holds was refused
C27_WitnessCreate ==
    /\ last.op = "create_config_item"
    /\ IsErr(last.result, Err("ConfigItemAlreadyExists", last.args.key))
    /\ HasItem(ItemsOf(EnvsOf(state, last.args.project), last.args.env), last.args.key)

\* every operation that addresses project p is refused with ProjectNotFound on
\* the tree st and leaves the tree alone
RefusesProject(st, p) ==
    LET NotFound == Err("ProjectNotFound", p)
        Refused(r) == IsErr(r.result, NotFound) /\ r.state = st /\ r.saves = <<>>
    IN /\ list_environments(st, p) = NotFound
       /\ list_api_keys(st, p) = NotFound
       /\ Refused(delete_project(st, p, "Ok"))
       /\ \A u \in Uuids : Refused(generate_api_key(st, p, u, "Ok"))
       /\ \A e \in EnvNames :
             /\ get_merged_config(st, p, e) = NotFound
             /\ list_config_items(st, p, e) = NotFound
             /\ Refused(create_environment(st, p, e, "Ok"))
             /\ Refused(delete_environment(st, p, e, "Ok"))
             /\ \A k \in Keys :
                   /\ get_merged_config_item(st, p, e, k) = NotFound
                   /\ Refused(delete_config_item(st, p, e, k, "Ok"))
                   /\ \A v \in Values :
                         /\ Refused(create_config_item(st, p, e, k, v, "Ok"))
                         /\ Refused(update_config_item(st, p, e, k, v, "Ok"))

\* create_project(p) on the tree st gives p an empty "default" environment
\* and nothing else, and no API key bound to p
CreatedAfresh(st, p) ==
    \A d \in {<<>>} \cup Descriptions :
       LET r == create_project(st, p, d, "Ok")
       IN /\ r.result.kind = "Ok"
          /\ EnvsOf(r.state, p) = <<Environment("default", <<>>)>>
          /\ list_api_keys(r.state, p) = Ok(<<>>)

\* C28: after a successful delete_project(p) every operation that addresses
\* p (resolve, the listings, create, update and delete of its environments
\* and items, generate_api_key) fails with ProjectNotFound until p is created
\* again, only create_project(p) brings p back, and it brings back an empty
\* "default" environment only: no environment, item or API key of the
\* deleted project reappears
C28_DeletedProjectIsGone ==
    /\ [](\A p \in ProjectNames :
             ~ HasProject(state, p) => RefusesProject(state, p) /\ CreatedAfresh(state, p))
    /\ []((last.op = "delete_project" /\ last.result.kind = "Ok")
             => ~ HasProject(state, last.args.project))
    /\ [][\A p \in ProjectNames :
             (~ HasProject(state, p) /\ HasProject(state', p))
                => /\ last'.op = "create_project"
                   /\ last'.args.project = p
                   /\ EnvsOf(state', p) = <<Environment("default", <<>>)>>
                   /\ list_api_keys(state', p) = Ok(<<>>)]_vars

\* a project with an API key has been deleted
C28_Witness ==
    /\ last.op = "delete_project"
    /\ last.result.kind = "Ok"
    /\ list_api_keys(before, last.args.project).kind = "Ok"
    /\ Len(list_api_keys(before, last.args.project).value) = 1
    /\ ~ HasProject(state, last.args.project)

\* C29: a successful revoke_api_key(k) removes exactly k: the keys that
\* remain are the other keys in their order, and projects and shared group
\* stay; validate_api_key(k) then fails as it does for a key never stored;
\* revoking a key that is not stored fails with ApiKeyNotFound and changes
\* nothing
C29_RevokeRemovesExactlyTheKey ==
    last.op = "revoke_api_key" =>
        /\ last.result.kind = "Ok" =>
              /\ KeyPos(before, last.args.key) # 0
              /\ state.api_keys = SelectSeq(before.api_keys, LAMBDA k : k.key # last.args.key)
              /\ Len(state.api_keys) = Len(before.api_keys) - 1
              /\ state.projects = before.projects
              /\ state.shared_group = before.shared_group
              /\ validate_api_key(state, last.args.key) = Err("ApiKeyNotFound", last.args.key)
              /\ validate_api_key(state, last.args.key)
                    = validate_api_key(empty_state, last.args.key)
        /\ KeyPos(before, last.args.key) = 0 =>
              /\ IsErr(last.result, Err("ApiKeyNotFound", last.args.key))
              /\ state = before

\* the first of three keys has been revoked
C29_Witness ==
    /\ last.op = "revoke_api_key"
    /\ last.result.kind = "Ok"
    /\ Len(before.api_keys) = 3
    /\ before.api_keys[1].key = last.args.key

\* a key that is not stored was revoked while another key was stored
C29_WitnessNotFound ==
    /\ last.op = "revoke_api_key"
    /\ IsErr(last.result, Err("ApiKeyNotFound", last.args.key))
    /\ Len(state.api_keys) = 1

\* C30: a successful delete_environment(p, e) removes environment e of p
\* with all its items and leaves every other environment of p (order and
\* items), every other project, the shared group (its environment named e
\* too) and all API keys as they were; it fails with EnvironmentNotFound when
\* p has no environment e
C30_DeleteEnvironmentRemovesOnlyIt ==
    last.op = "delete_environment" =>
        LET p == last.args.project
            e == last.args.env
        IN /\ last.result.kind = "Ok" =>
                 /\ HasProject(before, p) /\ HasEnv(EnvsOf(before, p), e)
                 /\ state.projects =
                       [before.projects EXCEPT ![ProjectPos(before, p)].environments =
                           RemoveAt(@, EnvPos(@, e))]
                 /\ ~ HasEnv(EnvsOf(state, p), e)
                 /\ state.shared_group = before.shared_group
                 /\ state.api_keys = before.api_keys
           /\ (HasProject(before, p) /\ ~ HasEnv(EnvsOf(before, p), e)) =>
                 /\ IsErr(last.result, Err("EnvironmentNotFound", e))
                 /\ state = before

\* an environment has been deleted whose name the shared group also has
C30_Witness ==
    /\ last.op = "delete_environment"
    /\ last.result.kind = "Ok"
    /\ HasEnv(SharedEnvs(before), last.args.env)
    /\ HasEnv(SharedEnvs(state), last.args.env)

\* an environment holding an item has been deleted
C30_WitnessItems ==
    /\ last.op = "delete_environment"
    /\ last.result.kind = "Ok"
    /\ Len(ItemsOf(EnvsOf(before, last.args.project), last.args.env)) = 1

\* the first of two environments has been deleted
C30_WitnessFirst ==
    /\ last.op = "delete_environment"
    /\ last.result.kind = "Ok"
    /\ Len(EnvsOf(before, last.args.project)) = 2
    /\ EnvsOf(before, last.args.project)[1].name = last.args.env

\* delete_environment of an environment the project does not have was refused
C30_WitnessNotFound ==
    /\ last.op = "delete_environment"
    /\ IsErr(last.result, Err("EnvironmentNotFound", last.args.env))
    /\ HasProject(state, last.args.project)

\* C31: when the save in delete_project fails, the rollback puts the project
\* back at its original index in the project list and every removed API key
\* back at its original index: the API-key list equals the list before the
\* call, also when the project's keys lay between keys of other projects
C31_DeleteProjectRollbackRestoresPositions ==
    (last.op = "delete_project" /\ SaveFailed) =>
        /\ ProjectPos(state, last.args.project) = ProjectPos(before, last.args.project)
        /\ ProjectPos(state, last.args.project) # 0
        /\ Len(state.projects) = Len(before.projects)
        /\ \A i \in DOMAIN before.projects : state.projects[i] = before.projects[i]
        /\ Len(state.api_keys) = Len(before.api_keys)
        /\ \A i \in DOMAIN before.api_keys : state.api_keys[i] = before.api_keys[i]

\* the save failed in delete_project of the first of two projects, whose two
\* keys had a key of the other project between them
C31_Witness ==
    /\ last.op = "delete_project"
    /\ SaveFailed
    /\ Len(before.projects) = 2
    /\ before.projects[1].name = last.args.project
    /\ Len(before.api_keys) = 3
    /\ before.api_keys[1].project = last.args.project
    /\ before.api_keys[2].project # last.args.project
    /\ before.api_keys[3].project = last.args.project

\* C32: the reload task has exclusive access to the served tree only to
\* replace it: the write lock is asked for only once the scan has built the
\* new tree, a request can take the read lock at any time before that, the
\* served tree stays what it was through the scan, and the step that gets
\* the write lock puts the scanned tree in place and gives the lock back
C32_WriteLockOnlyForTheSwap ==
    /\ [](rwlock.writer_waiting =>
             /\ reloader.pc = "swap"
             /\ reloader.new_center \in Storage_load(reloader.scanned))
    /\ [](reloader.pc # "swap" => ReadGranted(rwlock))
    /\ [][reloader.pc = "load" => center' = center]_vars
    /\ [][center' # center
            => /\ reloader.pc = "swap"
               /\ rwlock.writer_waiting /\ rwlock.readers = 0
               /\ center' = reloader.new_center
               /\ ~ rwlock'.writer_waiting
               /\ reloader'.pc = "recv"]_vars

\* a request resolves against the old tree, holding the read lock, while the
\* reload task is about to scan a directory that has changed
C32_Witness ==
    /\ reloader.pc = "load"
    /\ request.pc = "resolve"
    /\ rwlock.readers = 1
    /\ ~ rwlock.writer_waiting
    /\ center \notin Storage_load(disk)

\* C33: the channel between watcher and reload task never holds more than
\* one pending notification; a notification raised while one is pending is
\* coalesced with it, that is, it is not queued and does not make the watcher
\* wait; and no party blocks for ever: a blocked sender, a reload waiting for
\* the write lock and a request get on
C33_ExcessNotificationsCoalesced ==
    /\ [](Len(chan) <= 1)
    /\ [](watcher.pc # "sending")
    /\ [][(Len(chan) = ChannelCapacity /\ hist'.raised = hist.raised + 1)
            => chan' = chan /\ watcher'.pc = "idle"]_vars
    /\ [][chan' # chan /\ Len(chan') >= Len(chan) => watcher.pc = "idle"]_vars
    /\ (watcher.pc = "sending") ~> (watcher.pc = "idle")
    /\ (reloader.pc = "swap") ~> (reloader.pc = "recv")
    /\ (request.pc # "idle") ~> (request.pc = "idle")

\* the operations on (project, environment[, key]) that validate both parents
ItemOps ==
    {"create_config_item", "update_config_item", "delete_config_item", "get_merged_config"}

\* the result r answers (project, environment) of a on tree st parents first:
\* ProjectNotFound when the project is missing, whatever the rest;
\* EnvironmentNotFound when only the environment is missing, whatever the key;
\* an item error only when both are there
ParentsFirst(st, a, r) ==
    /\ ProjectEnvError(st, a) # NoError => IsErr(r, ProjectEnvError(st, a))
    /\ r.kind \in {"ConfigItemNotFound", "ConfigItemAlreadyExists"}
          => ProjectEnvError(st, a) = NoError

\* C34: validation checks parents before children, for create, update,
\* delete, list and resolve: with project and environment both missing the
\* error is ProjectNotFound; with the project there and the environment
\* missing it is EnvironmentNotFound whatever the key; ConfigItemNotFound and
\* ConfigItemAlreadyExists come only when project and environment exist
C34_ParentsBeforeChildren ==
    /\ last.op \in ItemOps => ParentsFirst(before, last.args, last.result)
    /\ \A p \in ProjectNames, e \in EnvNames :
          /\ ParentsFirst(state, Args(p, e, NoArg), list_config_items(state, p, e))
          /\ ParentsFirst(state, Args(p, e, NoArg), get_merged_config(state, p, e))
          /\ \A k \in Keys :
                ParentsFirst(state, Args(p, e, k), get_merged_config_item(state, p, e, k))

\* an update addressed an environment the project does not have with a key
\* that another environment of the project holds: EnvironmentNotFound
C34_Witness ==
    /\ last.op = "update_config_item"
    /\ IsErr(last.result, Err("EnvironmentNotFound", last.args.env))
    /\ HasProject(state, last.args.project)
    /\ \E i \in DOMAIN EnvsOf(state, last.args.project) :
          HasItem(EnvsOf(state, last.args.project)[i].config_items, last.args.key)

\* a delete addressed a missing environment of a missing project while
\* another project has that environment: ProjectNotFound
C34_WitnessBothMissing ==
    /\ last.op = "delete_config_item"
    /\ IsErr(last.result, Err("ProjectNotFound", last.args.project))
    /\ \E i \in DOMAIN state.projects : HasEnv(state.projects[i].environments, last.args.env)

\* C37: get_env_vars and get_env_export are functions of the tree, the
\* process environment and the prefix: a call with the (project, env, prefix)
\* and environment of the call before it, on the same tree, returns the same
\* map and the same export text, also when two merged keys have one
\* environment-variable name
C37_EnvVarsDeterministic ==
    [][(/\ last.op \in {"get_env_vars", "get_env_export"}
        /\ last'.op = last.op
        /\ last'.args = last.args
        /\ center' = center)
          => last'.result = last.result]_vars

\* C35: within one request the API-key check and every read of configuration
\* (merged config, item, env vars, export) are answered by one tree: the
\* request holds the read lock from its first step to its response, the served
\* tree is not replaced while it runs, every step has read the tree the key
\* check read, and the response is one the handler gives on that tree alone
C35_RequestReadsOneTree ==
    /\ [](request.pc # "idle" => rwlock.readers >= 1)
    /\ [][request.pc # "idle" => center' = center]_vars
    /\ []((request.pc = "respond" /\ request.auth.kind = "Ok")
            => /\ request.configs_tree = request.auth_tree
               /\ request.handler = "get_all_configs" /\ request.configs.kind = "Ok"
                     => request.env_vars_tree = request.auth_tree
               /\ request.response \in Handle(request.auth_tree, request))

\* get_all_configs has read key, merged config and env vars and is about to
\* respond while the reload task waits to put a different tree in place
C35_Witness ==
    /\ request.pc = "respond"
    /\ request.handler = "get_all_configs"
    /\ request.response.kind = "Ok"
    /\ request.env_vars.kind = "Ok"
    /\ reloader.pc = "swap"
    /\ reloader.new_center # center

\* the trees that differ from tree in the configuration of project p only:
\* p missing, p without environments, p with the environments default and
\* prod holding key a; p lists no API key in any of them
ConfigVariants(tree, p) ==
    LET others == [q \in DOMAIN tree.projects \ {p} |-> tree.projects[q]]
        rest   == SelectSeq(tree.order, LAMBDA q : q # p)
        With(envs) ==
            DirConfigState([q \in DOMAIN others \cup {p} |->
                               IF q = p THEN ProjectData(DefaultMeta, envs) ELSE others[q]],
                           Append(rest, p), tree.shared)
    IN {DirConfigState(others, rest, tree.shared),
        With(<<>>),
        With([e \in {"default", "prod"} |-> KeyedVersion(7)])}

\* the request's key is missing, stored for no project, or stored for other
\* projects than the addressed one
KeyRefused(tree, req) ==
    \/ req.header = <<>>
    \/ \A p \in DOMAIN tree.projects :
          \/ p # req.project
          \/ \A i \in DOMAIN tree.projects[p].meta.api_keys :
                tree.projects[p].meta.api_keys[i] # req.header[1]

\* C36: the outcome of a request that fails access control does not depend
\* on the configuration of the addressed project: with a missing, unknown or
\* wrongly-bound key the response is Unauthorized or Forbidden, never a
\* NotFound error or a value, and it is the response the handler gives on
\* every tree that differs in whether the addressed project, its environment
\* or the key exists
C36_DenialIndependentOfConfiguration ==
    (request.pc = "respond" /\ KeyRefused(request.auth_tree, request))
        => /\ request.response.kind \in {"Unauthorized", "Forbidden"}
           /\ \A tree \in ConfigVariants(request.auth_tree, request.project) :
                 Handle(tree, request) = {request.response}

\* a request for a key of an existing environment of project app was refused
\* for want of a header; with a key of app it would have been answered
C36_Witness ==
    /\ request.pc = "respond"
    /\ request.handler = "get_single_config"
    /\ request.header = <<>>
    /\ request.project = "app"
    /\ request.env = "default"
    /\ request.response.kind = "Unauthorized"
    /\ \E r \in Handle(request.auth_tree, [request EXCEPT !.header = <<"key-1">>]) :
          r.kind = "Ok"

\* the key of app was presented for project web, which does not exist
C36_WitnessForbidden ==
    /\ request.pc = "respond"
    /\ request.header = <<"key-1">>
    /\ request.project = "web"
    /\ request.response.kind = "Forbidden"
    /\ "web" \notin DOMAIN request.auth_tree.projects

(***************************************************************************)
(* tui/app.rs: the App over the snapshot tree; self.center.create_project  *)
(* and the like are the operations of core/*.rs on the App's store.        *)
(* A string is a TLA+ string                                               *)
(* (Len, SubSeq and \o work on its characters); a key press is the name of *)
(* a special key ("Tab", "Esc", ...) or the one character of Char(c)       *)
(***************************************************************************)
\* MenuPanel::ALL
Panels == <<"Projects", "Environments", "ConfigItems", "SharedGroup", "ApiKeys", "Server">>

selected_panel(a) == Panels[a.selected_menu + 1]

\* Option::unwrap_or: an Option is <<>> (None) or <<x>> (Some(x))
OrElse(opt, d) == IF opt = <<>> THEN d ELSE opt[1]

\* str.split(sep).next(): the text before the first sep, the whole text if there is none
SplitFirst(str, sep) ==
    LET at == Find(str, 1, sep)
    IN IF at = 0 THEN str ELSE SubSeq(str, 1, at - 1)

\* str.split_once(sep): None, or Some((before, after)) as <<before, after>>
split_once(str, sep) ==
    LET at == Find(str, 1, sep)
    IN IF at = 0 THEN <<>>
       ELSE <<SubSeq(str, 1, at - 1), SubSeq(str, at + Len(sep), Len(str))>>

RECURSIVE trim_start(_)
trim_start(str) ==
    IF Len(str) > 0 /\ SubSeq(str, 1, 1) = " "
    THEN trim_start(SubSeq(str, 2, Len(str))) ELSE str

RECURSIVE trim_end(_)
trim_end(str) ==
    IF Len(str) > 0 /\ SubSeq(str, Len(str), Len(str)) = " "
    THEN trim_end(SubSeq(str, 1, Len(str) - 1)) ELSE str

\* str::trim
trim(str) == trim_end(trim_start(str))

\* the escapes serde_json writes inside a string literal (of the characters
\* that occur here: the quote and the backslash)
RECURSIVE json_escape(_)
json_escape(str) ==
    IF Len(str) = 0 THEN ""
    ELSE LET c == SubSeq(str, 1, 1)
             rest == json_escape(SubSeq(str, 2, Len(str)))
         IN IF c \in {"\"", "\\"} THEN "\\" \o c \o rest ELSE c \o rest

\* Display of a serde_json::Value that is a string: the JSON literal
value_display(value) == "\"" \o json_escape(value) \o "\""

\* the inside of a JSON string literal read back: ok is FALSE at a bare quote
\* or at a backslash that starts no escape
RECURSIVE json_unescape(_)
json_unescape(str) ==
    IF Len(str) = 0 THEN [ok |-> TRUE, text |-> ""]
    ELSE LET c == SubSeq(str, 1, 1)
         IN IF c = "\"" THEN [ok |-> FALSE, text |-> ""]
            ELSE IF c = "\\"
                 THEN IF Len(str) >= 2 /\ SubSeq(str, 2, 2) \in {"\"", "\\"}
                      THEN LET r == json_unescape(SubSeq(str, 3, Len(str)))
                           IN [ok |-> r.ok, text |-> SubSeq(str, 2, 2) \o r.text]
                      ELSE [ok |-> FALSE, text |-> ""]
                 ELSE LET r == json_unescape(SubSeq(str, 2, Len(str)))
                      IN [ok |-> r.ok, text |-> c \o r.text]

\* App::parse_json_value: the JSON value the text is, else the text as a string.
\* Of the JSON texts only string literals can be formed from the characters
\* that occur here (no digit, bracket, or letter of true/false/null)
parse_json_value(raw) ==
    LET body == json_unescape(SubSeq(raw, 2, Len(raw) - 1))
    IN IF /\ Len(raw) >= 2
          /\ SubSeq(raw, 1, 1) = "\""
          /\ SubSeq(raw, Len(raw), Len(raw)) = "\""
          /\ body.ok
       THEN body.text ELSE raw

\* the fields of App after with_center, before its refresh_content.  A form
\* field is its value (the labels are fixed by the panel); the status line
\* is, like the rendering, written and never read
NewApp ==
    [selected_menu |-> 0, focus |-> "Menu", running |-> TRUE,
     content_items |-> <<>>, content_selected |-> 0, input_mode |-> "Normal",
     input_field |-> 0, input_fields |-> <<>>, current_project |-> <<>>,
     current_env |-> <<>>, server_running |-> FALSE]

\* set_status leaves every field the handlers read
set_status(a, msg) == a

ensure_current_project(a, st) ==
    IF a.current_project = <<>> /\ st.projects # <<>>
    THEN [a EXCEPT !.current_project = <<st.projects[1].name>>] ELSE a

ensure_current_env(a, st) ==
    LET b == ensure_current_project(a, st)
    IN IF b.current_env = <<>> THEN [b EXCEPT !.current_env = <<"default">>] ELSE b

list_shared_items(st, env) ==
    IF EnvPos(SharedEnvs(st), env) = 0 THEN Err("EnvironmentNotFound", env)
    ELSE Ok(SharedEnvs(st)[EnvPos(SharedEnvs(st), env)].config_items)

\* the rows of refresh_content
ProjectRow(p) ==
    IF p.description = <<>> THEN p.name ELSE p.name \o " (" \o p.description[1] \o ")"

ItemRow(c) == c.key \o " = " \o value_display(c.value)

ApiKeyRow(k) == k.key \o " (" \o k.project \o ")"

\* the entities the current panel lists, in the order of its rows
Listed(a, st) ==
    LET panel == selected_panel(a)
        proj == OrElse(a.current_project, "")
        env == OrElse(a.current_env, "default")
        listed == CASE panel = "Projects" -> Ok(st.projects)
                    [] panel = "Environments" ->
                         IF a.current_project = <<>> THEN Err("None", NoArg)
                         ELSE list_environments(st, proj)
                    [] panel = "ConfigItems" -> list_config_items(st, proj, env)
                    [] panel = "SharedGroup" -> list_shared_items(st, env)
                    [] panel = "ApiKeys" ->
                         IF a.current_project = <<>> THEN Err("None", NoArg)
                         ELSE list_api_keys(st, proj)
                    [] OTHER -> Err("None", NoArg)
    IN IF listed.kind = "Ok" THEN listed.value ELSE <<>>

refresh_content(a, st) ==
    LET panel == selected_panel(a)
        b == IF panel \in {"Environments", "ApiKeys"} THEN ensure_current_project(a, st)
             ELSE IF panel \in {"ConfigItems", "SharedGroup"} THEN ensure_current_env(a, st)
             ELSE a
        listed == Listed(b, st)
        items == IF panel = "Server"
                 THEN <<IF b.server_running THEN "Server: Running on :3000"
                        ELSE "Server: Stopped">>
                 ELSE [i \in 1..Len(listed) |->
                         CASE panel = "Projects" -> ProjectRow(listed[i])
                           [] panel = "Environments" -> listed[i].name
                           [] panel = "ApiKeys" -> ApiKeyRow(listed[i])
                           [] OTHER -> ItemRow(listed[i])]
    IN [b EXCEPT !.content_items = items,
                 !.content_selected = IF Len(items) = 0 THEN 0
                                      ELSE IF @ >= Len(items) THEN Len(items) - 1
                                      ELSE @]

with_center(st) == refresh_content(NewApp, st)

cycle_project(a, st) ==
    LET current == OrElse(a.current_project, "")
        idx == IF ProjectPos(st, current) = 0 THEN 1 ELSE ProjectPos(st, current)
        next == (idx % Len(st.projects)) + 1
    IN IF st.projects = <<>> THEN a
       ELSE set_status(refresh_content([a EXCEPT !.current_project = <<st.projects[next].name>>,
                                                 !.current_env = <<"default">>], st),
                       "Switched to project")

cycle_env(a, st) ==
    LET envs == IF selected_panel(a) = "SharedGroup" THEN Ok(SharedEnvs(st))
                ELSE list_environments(st, a.current_project[1])
        current == OrElse(a.current_env, "")
        idx == IF EnvPos(envs.value, current) = 0 THEN 1 ELSE EnvPos(envs.value, current)
        next == (idx % Len(envs.value)) + 1
    IN IF a.current_project = <<>> THEN a
       ELSE IF envs.kind # "Ok" THEN a
       ELSE IF envs.value = <<>> THEN a
       ELSE set_status(refresh_content([a EXCEPT !.current_env = <<envs.value[next].name>>], st),
                       "Switched to env")

\* what a key handler leaves: the App, and the tree, the kind of Result and the
\* save calls of the engine operation it ran (none: the tree as it was, no save)
After(a, r) ==
    [app |-> a, state |-> r.state, result |-> Err(r.result.kind, NoArg), saves |-> r.saves]

Quiet(a, st) == After(a, Outcome(st, Ok(NoArg), <<>>))

handle_menu_key(a, st, code) ==
    LET moved == IF code = "Up"
                 THEN (IF a.selected_menu > 0 THEN [a EXCEPT !.selected_menu = @ - 1] ELSE a)
                 ELSE IF code = "Down"
                 THEN (IF a.selected_menu < Len(Panels) - 1
                       THEN [a EXCEPT !.selected_menu = @ + 1] ELSE a)
                 ELSE IF code = "Enter" THEN set_status(a, "Selected")
                 ELSE a
    IN IF moved.selected_menu # a.selected_menu THEN refresh_content(moved, st) ELSE moved

\* the form opened: its fields, the field with the cursor, Creating
Form(a, fields, field, msg) ==
    [a EXCEPT !.input_fields = fields, !.input_field = field,
              !.input_mode = "Creating"]

start_creating(a, st, uuid, saveOutcome) ==
    LET panel == selected_panel(a)
        p == ensure_current_project(a, st)
        e == ensure_current_env(a, st)
        generated == generate_api_key(st, p.current_project[1], uuid, saveOutcome)
    IN CASE panel = "Projects" -> Quiet(Form(a, <<"", "">>, 0, "Creating"), st)
         [] panel = "Environments" ->
              IF p.current_project = <<>> THEN Quiet(set_status(p, "Error"), st)
              ELSE Quiet(Form(p, <<"">>, 0, "Creating"), st)
         [] panel = "ConfigItems" ->
              IF e.current_project = <<>> THEN Quiet(set_status(e, "Error"), st)
              ELSE Quiet(Form(e, <<"", "">>, 0, "Creating"), st)
         [] panel = "SharedGroup" -> Quiet(Form(e, <<"", "">>, 0, "Creating"), st)
         [] panel = "ApiKeys" ->
              IF p.current_project = <<>> THEN Quiet(set_status(p, "Error"), st)
              ELSE IF generated.result.kind = "Ok"
                   THEN After(refresh_content(set_status(p, "Done"), generated.state),
                              generated)
                   ELSE After(set_status(p, "Error"), generated)
         [] OTHER -> Quiet(set_status(a, "Use s"), st)

start_editing(a) ==
    LET kv == split_once(a.content_items[a.content_selected + 1], " = ")
    IN IF a.content_items = <<>> THEN a
       ELSE IF selected_panel(a) \notin {"ConfigItems", "SharedGroup"} THEN a
       ELSE IF a.content_selected >= Len(a.content_items) THEN a
       ELSE IF kv = <<>> THEN a
       ELSE Form(a, kv, 1, "Editing")

handle_content_key(a, st, code, uuid, saveOutcome) ==
    CASE code = "Up" ->
           Quiet(IF a.content_selected > 0 THEN [a EXCEPT !.content_selected = @ - 1]
                 ELSE a, st)
      [] code = "Down" ->
           Quiet(IF a.content_items # <<>> /\ a.content_selected < Len(a.content_items) - 1
                 THEN [a EXCEPT !.content_selected = @ + 1] ELSE a, st)
      [] code = "n" -> start_creating(a, st, uuid, saveOutcome)
      [] code = "d" ->
           Quiet(IF a.content_items # <<>>
                 THEN [a EXCEPT !.input_mode = "Deleting"]
                 ELSE a, st)
      [] code = "e" -> Quiet(start_editing(a), st)
      [] code = "p" -> Quiet(cycle_project(a, st), st)
      [] code = "v" -> Quiet(cycle_env(a, st), st)
      [] code = "s" ->
           Quiet(IF selected_panel(a) = "Server"
                 THEN refresh_content([a EXCEPT !.server_running = ~ @], st)
                 ELSE a, st)
      [] OTHER -> Quiet(a, st)

\* App::field_value: the field's text trimmed, "" when there is no such field
field_value(a, idx) ==
    IF idx + 1 \in DOMAIN a.input_fields THEN trim(a.input_fields[idx + 1]) ELSE ""

\* the tail of confirm_create and confirm_delete after the engine returned r
Confirmed(a, r) ==
    After(refresh_content([a EXCEPT !.input_mode = "Normal"], r.state), r)

\* s1 is the outcome of the first save the handler reaches, s2 that of the
\* second (only the Shared Group panel reaches two)
confirm_create(a, st, s1, s2) ==
    LET panel == selected_panel(a)
        name == field_value(a, 0)
        second == field_value(a, 1)
        proj == OrElse(a.current_project, "")
        env == OrElse(a.current_env, "default")
        json_value == parse_json_value(second)
        closed == [a EXCEPT !.input_fields = <<>>]
        updated == update_config_item(st, proj, env, name, json_value, s1)
        created == create_config_item(updated.state, proj, env, name, json_value, s1)
    IN IF panel \in {"Projects", "Environments", "ConfigItems", "SharedGroup"} /\ name = ""
       THEN Quiet(set_status(a, "Error"), st)
       ELSE CASE panel = "Projects" ->
                   Confirmed(closed, create_project(st, name,
                                                    IF second = "" THEN <<>> ELSE <<second>>,
                                                    s1))
              [] panel = "Environments" ->
                   Confirmed(closed, create_environment(st, proj, name, s1))
              [] panel = "ConfigItems" ->
                   Confirmed(closed,
                             IF updated.result.kind = "Ok" THEN updated
                             ELSE Outcome(created.state, created.result,
                                          updated.saves \o created.saves))
              [] panel = "SharedGroup" ->
                   Confirmed(closed, confirm_create_shared(st, env, name, json_value, s1, s2))
              [] OTHER -> Confirmed(closed, Outcome(st, Err("Not supported", NoArg), <<>>))

handle_create_key(a, st, code, s1, s2) ==
    LET at == a.input_field + 1
    IN CASE code = "Esc" ->
              Quiet([a EXCEPT !.input_mode = "Normal", !.input_fields = <<>>], st)
         [] code = "Tab" ->
              Quiet(IF a.input_fields # <<>>
                    THEN [a EXCEPT !.input_field = (@ + 1) % Len(a.input_fields)]
                    ELSE a, st)
         [] code = "BackTab" ->
              Quiet(IF a.input_fields # <<>> /\ a.input_field > 0
                    THEN [a EXCEPT !.input_field = @ - 1] ELSE a, st)
         [] code = "Enter" -> confirm_create(a, st, s1, s2)
         [] code = "Backspace" ->
              Quiet(IF at \in DOMAIN a.input_fields /\ Len(a.input_fields[at]) > 0
                    THEN [a EXCEPT !.input_fields[at] = SubSeq(@, 1, Len(@) - 1)]
                    ELSE a, st)
         [] Len(code) = 1 ->
              Quiet(IF at \in DOMAIN a.input_fields
                    THEN [a EXCEPT !.input_fields[at] = @ \o code] ELSE a, st)
         [] OTHER -> Quiet(a, st)

\* the row under the cursor is parsed back into the name the engine is called with
confirm_delete(a, st, saveOutcome) ==
    LET panel == selected_panel(a)
        item == a.content_items[a.content_selected + 1]
        proj == OrElse(a.current_project, "")
        env == OrElse(a.current_env, "default")
        r == CASE panel = "Projects" -> delete_project(st, SplitFirst(item, " ("), saveOutcome)
               [] panel = "Environments" -> delete_environment(st, proj, item, saveOutcome)
               [] panel = "ConfigItems" ->
                    delete_config_item(st, proj, env, SplitFirst(item, " = "), saveOutcome)
               [] panel = "SharedGroup" ->
                    delete_shared_item(st, env, SplitFirst(item, " = "), saveOutcome)
               [] panel = "ApiKeys" -> revoke_api_key(st, SplitFirst(item, " ("), saveOutcome)
    IN IF panel = "Server"
       THEN Quiet(refresh_content([a EXCEPT !.input_mode = "Normal"], st), st)
       ELSE IF a.content_selected >= Len(a.content_items)
            THEN Quiet(refresh_content([a EXCEPT !.input_mode = "Normal"], st), st)
            ELSE Confirmed(a, r)

handle_delete_key(a, st, code, saveOutcome) ==
    CASE code = "y" -> confirm_delete(a, st, saveOutcome)
      [] code \in {"n", "Esc"} ->
           Quiet([a EXCEPT !.input_mode = "Normal"], st)
      [] OTHER -> Quiet(a, st)

\* handle_key with the global keys looked at before the input mode
handle_key_global_first(a, st, code, uuid, s1, s2) ==
    IF code = "q" THEN Quiet([a EXCEPT !.running = FALSE], st)
    ELSE IF a.input_mode = "Creating" THEN handle_create_key(a, st, code, s1, s2)
    ELSE IF a.input_mode = "Deleting" THEN handle_delete_key(a, st, code, s1)
    ELSE IF code = "Tab"
         THEN Quiet([a EXCEPT !.focus = IF @ = "Menu" THEN "Content" ELSE "Menu"], st)
    ELSE IF a.focus = "Menu" THEN Quiet(handle_menu_key(a, st, code), st)
    ELSE handle_content_key(a, st, code, uuid, s1)

\* App::handle_key; uuid is what Uuid::new_v4() would return
handle_key(a, st, code, uuid, s1, s2) ==
    IF a.input_mode = "Creating" THEN handle_create_key(a, st, code, s1, s2)
    ELSE IF a.input_mode = "Deleting" THEN handle_delete_key(a, st, code, s1)
    ELSE IF code = "q" THEN Quiet([a EXCEPT !.running = FALSE], st)
    ELSE IF code = "Tab"
         THEN Quiet([a EXCEPT !.focus = IF @ = "Menu" THEN "Content" ELSE "Menu"], st)
    ELSE IF a.focus = "Menu" THEN Quiet(handle_menu_key(a, st, code), st)
    ELSE handle_content_key(a, st, code, uuid, s1)

(***************************************************************************)
(* The terminal UI running: App::new on a snapshot file, then one key      *)
(* press after the other                                                   *)
(***************************************************************************)
\* bound on the number of entities of a tree the UI has added to
MaxTuiNodes == 3

\* bound on the length of a text typed into a form field
MaxInput == 1

\* bound on the length of a stored value
MaxText == 2

\* bound on the number of keys pressed
MaxKeys == 10

SpecialKeys == {"Tab", "BackTab", "Up", "Down", "Enter", "Esc", "Backspace"}

\* the characters pressed while browsing or confirming a delete
CommandChars == {"q", "n", "d", "e", "p", "v", "s", "y"}

\* the characters typed into a form (handle_create_key treats every Char alike)
TypedChars == {"q", " "}

KeysIn(input_mode) ==
    SpecialKeys \cup (IF input_mode = "Creating" THEN TypedChars ELSE CommandChars)

\* a tree whose names and keys hold the texts the rows are built with
SeparatorTree ==
    ConfigState(<<Project("a", <<>>,
                          <<Environment("default", <<ConfigItem("k", "v"),
                                                     ConfigItem("k = v", "v")>>)>>),
                  Project("a (b", <<"x">>, <<Environment("default", <<>>)>>)>>,
                <<>>,
                <<ApiKey("uuid-1", "a (b")>>)

TuiTrees == {empty_state, SeparatorTree}

RECURSIVE ValueLens(_)
ValueLens(envs) ==
    IF envs = <<>> THEN {}
    ELSE {Len(Head(envs).config_items[i].value) : i \in DOMAIN Head(envs).config_items}
             \cup ValueLens(Tail(envs))

\* the lengths of the values stored in a tree
TreeValueLens(st) ==
    ValueLens(SharedEnvs(st))
        \cup UNION {ValueLens(st.projects[i].environments) : i \in DOMAIN st.projects}

\* App::new(data_path): the tree of the snapshot file, the first panel rendered
InitTui ==
    /\ \E tree \in TuiTrees :
          /\ state = tree
          /\ before = tree
          /\ disk = IF tree = empty_state THEN NoSnapshot ELSE JsonFile(to_json(tree))
          /\ app = with_center(tree)
    /\ last = [op |-> "start", args |-> Args(NoArg, NoArg, NoArg),
               result |-> Ok(NoArg), saves |-> <<>>]
    /\ center = DirConfigState(<<>>, <<>>, <<>>)
    /\ PipelineIdle

\* Uuid::new_v4() is taken to return a value no stored key has
NewUuid(st) ==
    "uuid-" \o ToString(First({i \in 1..MaxTuiNodes :
                                  \A j \in DOMAIN st.api_keys :
                                      st.api_keys[j].key # "uuid-" \o ToString(i)}))

\* the outcomes of a key press: those of save are inputs only as far as the
\* handler reaches save (r0 is the handling with every save succeeding)
KeyOutcomes(a, st, code) ==
    LET r0 == handle_key(a, st, code, NewUuid(st), "Ok", "Ok")
    IN {handle_key(a, st, code, NewUuid(st), s1, s2) :
          s1 \in IF r0.saves = <<>> THEN {"Ok"} ELSE SaveOutcomes,
          s2 \in IF Len(r0.saves) < 2 THEN {"Ok"} ELSE SaveOutcomes}

\* the outcomes explored: the tree grows to at most MaxTuiNodes entities, a
\* typed text to at most MaxInput characters and a stored value to MaxText
Within(a, st, o) ==
    /\ Nodes(o.state) <= MaxTuiNodes \/ Nodes(o.state) <= Nodes(st)
    /\ \A i \in DOMAIN o.app.input_fields :
          \/ Len(o.app.input_fields[i]) <= MaxInput
          \/ a.input_mode = "Normal"
          \/ /\ i \in DOMAIN a.input_fields
             /\ Len(o.app.input_fields[i]) <= Len(a.input_fields[i])
    /\ \A n \in TreeValueLens(o.state) : n <= MaxText \/ n \in TreeValueLens(st)

\* one turn of event_loop: a key press handled.  A save that returns Ok has
\* written the tree; a failing save here is one that leaves the file alone
\* (the file could not be opened)
HandleKey ==
    /\ app.running
    /\ hist.keys < MaxKeys
    /\ \E code \in KeysIn(app.input_mode) :
         \E o \in {x \in KeyOutcomes(app, state, code) : Within(app, state, x)} :
            /\ app' = o.app
            /\ before' = state
            /\ state' = o.state
            /\ last' = [op |-> "handle_key", args |-> Args(NoArg, NoArg, code),
                        result |-> o.result, saves |-> o.saves]
            /\ disk' = IF \E i \in DOMAIN o.saves : o.saves[i] = "Ok"
                       THEN JsonFile(to_json(o.state)) ELSE disk
            /\ hist' = [hist EXCEPT !.keys = @ + 1]
    /\ UNCHANGED <<center, events, watcher, chan, reloader, rwlock, request>>

\* the process is started again on the file it left
Restart ==
    /\ ~ app.running
    /\ LET loaded == FileStorage_load(disk)
       IN /\ state' = loaded.value
          /\ app' = with_center(loaded.value)
    /\ before' = state
    /\ last' = [op |-> "start", args |-> Args(NoArg, NoArg, NoArg),
                result |-> Ok(NoArg), saves |-> <<>>]
    /\ UNCHANGED dirVars

NextTui == HandleKey \/ Restart

SpecTui == InitTui /\ [][NextTui]_vars

(***************************************************************************)
(* The terminal UI: input modes, deletes, persist-or-rollback              *)
(***************************************************************************)
\* the step is a key press handled by App::handle_key
KeyHandled == last'.op = "handle_key" /\ hist'.keys = hist.keys + 1

\* C38: the input mode is a state machine over Normal, Creating, Deleting.
\* Creating is entered only from Normal with the focus on the content,
\* Deleting only from Normal with a non-empty content list; in Creating and
\* Deleting every key is handled by the mode (a typed character goes into
\* the form field, `q` does not quit, panel and focus stay, no other mode is
\* entered); Esc, or `n` in Deleting, returns to Normal and leaves the tree;
\* Enter on a form whose name or key is empty stays in Creating and changes
\* nothing; any other confirm returns to Normal.
C38_InputModeStateMachine ==
    [][KeyHandled =>
        LET code == last'.args.key
            mode == app.input_mode
            at == app.input_field + 1
        IN /\ app'.input_mode \in {"Normal", "Creating", "Deleting"}
           /\ (app'.input_mode = "Creating" /\ mode # "Creating")
                 => (mode = "Normal" /\ app.focus = "Content")
           /\ (app'.input_mode = "Deleting" /\ mode # "Deleting")
                 => (mode = "Normal" /\ app.content_items # <<>>)
           /\ mode \in {"Creating", "Deleting"}
                 => /\ app'.running = app.running
                    /\ app'.input_mode \in {mode, "Normal"}
                    /\ app'.selected_menu = app.selected_menu
                    /\ app'.focus = app.focus
           /\ (mode = "Creating" /\ Len(code) = 1)
                 => /\ app' = [app EXCEPT !.input_fields[at] = @ \o code]
                    /\ state' = state
           /\ (mode = "Deleting" /\ code \notin {"y", "n", "Esc"})
                 => (app' = app /\ state' = state)
           /\ ((mode \in {"Creating", "Deleting"} /\ code = "Esc")
                  \/ (mode = "Deleting" /\ code = "n"))
                 => /\ app'.input_mode = "Normal"
                    /\ state' = state
                    /\ last'.saves = <<>>
           /\ (mode = "Creating" /\ code = "Enter")
                 => IF field_value(app, 0) = ""
                    THEN app' = app /\ state' = state /\ last'.saves = <<>>
                    ELSE app'.input_mode = "Normal"
           /\ (mode = "Deleting" /\ code = "y") => app'.input_mode = "Normal"]_vars

\* `q` was typed into a form: it went into the field and the UI still runs
C38_Witness ==
    /\ last.op = "handle_key"
    /\ last.args.key = "q"
    /\ app.input_mode = "Creating"
    /\ app.input_fields = <<"q", "">>
    /\ app.running

\* Enter on a form whose name is blank left the form open
C38_WitnessEmptyName ==
    /\ last.op = "handle_key"
    /\ last.args.key = "Enter"
    /\ app.input_mode = "Creating"
    /\ app.input_fields = <<" ", "q">>
    /\ state = before

\* Enter on a filled form created the project and returned to Normal
C38_WitnessConfirmed ==
    /\ last.op = "handle_key"
    /\ last.args.key = "Enter"
    /\ last.saves = <<"Ok">>
    /\ app.input_mode = "Normal"
    /\ state # before
    /\ ProjectPos(state, "q") # 0

\* a delete was asked for and answered with `n`
C38_WitnessDeleteCancelled ==
    /\ last.op = "handle_key"
    /\ last.args.key = "n"
    /\ app.input_mode = "Normal"
    /\ app.focus = "Content"
    /\ app.content_items # <<>>
    /\ state = SeparatorTree
    /\ hist.keys >= 3

\* the engine's delete of the entity a row of the panel shows
DeleteShown(a, st, shown, saveOutcome) ==
    LET panel == selected_panel(a)
        proj == OrElse(a.current_project, "")
        env == OrElse(a.current_env, "default")
    IN CASE panel = "Projects" -> delete_project(st, shown.name, saveOutcome)
         [] panel = "Environments" -> delete_environment(st, proj, shown.name, saveOutcome)
         [] panel = "ConfigItems" -> delete_config_item(st, proj, env, shown.key, saveOutcome)
         [] panel = "SharedGroup" -> delete_shared_item(st, env, shown.key, saveOutcome)
         [] panel = "ApiKeys" -> revoke_api_key(st, shown.key, saveOutcome)

\* C39: `y` in Deleting deletes exactly the entity the selected row of the
\* panel displays (a project, environment, configuration item, shared item or
\* API key) and nothing else, whatever the names and keys of the tree are:
\* the rows show the tree, and the tree after the key press is the tree the
\* engine's delete of that very entity leaves.
C39_DeleteRemovesTheDisplayedEntity ==
    [][(/\ KeyHandled
        /\ app.input_mode = "Deleting"
        /\ last'.args.key = "y"
        /\ selected_panel(app) # "Server")
       => /\ app.content_items = refresh_content(app, state).content_items
          /\ app.content_selected < Len(Listed(app, state))
          /\ \E s \in SaveOutcomes :
               LET r == DeleteShown(app, state, Listed(app, state)[app.content_selected + 1], s)
               IN state' = r.state /\ last'.saves = r.saves]_vars

\* the entities of a tree
Entities(st) ==
    LET EnvEntities(owner, envs) ==
            UNION {{<<"environment", owner, envs[i].name>>}
                      \cup {<<"item", owner, envs[i].name, envs[i].config_items[j]>> :
                               j \in DOMAIN envs[i].config_items} : i \in DOMAIN envs}
    IN {<<"project", st.projects[i].name, st.projects[i].description>> :
           i \in DOMAIN st.projects}
         \cup UNION {EnvEntities(<<st.projects[i].name>>, st.projects[i].environments) :
                        i \in DOMAIN st.projects}
         \cup EnvEntities(<<>>, SharedEnvs(st))
         \cup {<<"api_key", st.api_keys[i]>> : i \in DOMAIN st.api_keys}

\* C40: whatever keys were pressed and whichever saves failed, every entity
\* of the in-memory tree is in the snapshot file: a change is persisted or
\* rolled back, the shared-group environment made on demand included.
C40_NothingInMemoryUnwritten ==
    Entities(state) \subseteq Entities(FileStorage_load(disk).value)

====
